---- MODULE Spec2Model ----
(***************************************************************************)
(* Scoring and ranking engine of the judging system (src/lib/scoring.ts):  *)
(* computeRunScore, computeFinalScore and rankAthletes, modelled as        *)
(* operators over the stored score list, the category list and the         *)
(* athlete roster, and applied by one action per function.  Around it, the *)
(* server that feeds it (POST /api/score, PUT /api/admin/live) and the     *)
(* store that keeps the event (src/lib/store.ts).                          *)
(*                                                                         *)
(* Numbers.  A judge value is an integer 1..100.  Every derived number     *)
(* (average, weighted, weightedTotal) is kept in hundredths: 78.33 is      *)
(* 7833.  round2 is Math.round(n * 100) / 100, i.e. round half up to two   *)
(* decimals; RoundToHundredths computes it exactly on a rational.  On the    *)
(* values the inputs below use, the IEEE double evaluation of the source   *)
(* gives the same hundredths.  JavaScript's null, NaN and undefined are    *)
(* the negative numbers Null, NaN and Undefined, outside every number      *)
(* range.                                                                  *)
(***************************************************************************)
EXTENDS Integers, Sequences, FiniteSets

VARIABLES
    scores,       \* Score[]: the submission collection handed to the engine
    categories,   \* Category[]: the category list handed to the engine
    athletes,     \* Athlete[]: the roster handed to rankAthletes
    call,         \* the last engine call: its function name and arguments
    ret,          \* what that call returned
    event,        \* the content of data/event.json: the stored EventData
    inflight,     \* requests whose handler loaded the event and awaits the body
    response,     \* the response the server sent last
    requests,     \* how many requests the server has received
    tempFile,     \* the temp file saveEvent writes before it renames it
    pc,           \* where the running saveEvent is: the file operation it does next
    storeCall,    \* the last call of the store: its name, arguments, and what
                  \* loadEvent returned when it began
    outcome,      \* how that call ended: returned, threw, or the process crashed
    storeCalls    \* how many calls of the store were made

vars == <<scores, categories, athletes, call, ret, event, inflight, response, requests,
          tempFile, pc, storeCall, outcome, storeCalls>>

engineVars == <<scores, categories, athletes, call, ret>>

serverVars == <<event, inflight, response, requests>>

storeVars == <<tempFile, pc, storeCall, outcome, storeCalls>>

-----------------------------------------------------------------------------
(* Values of the source language *)

JUDGE_ROLES == <<"J1", "J2", "J3">>

Null == -1
NaN == -2
Undefined == -3

\* `RunScoreResult | null`: the null of a result record
NullResult == [null |-> TRUE]

\* loadEvent() returning null: no data/event.json
NoEvent == [null |-> TRUE]

\* A response without a body the model looks at, and no response sent yet
NoBody == "<none>"
NoResponse == [route |-> "<none>", status |-> 0, body |-> NoBody]

\* x ?? d
OrElse(x, d) == IF x = Null \/ x = Undefined THEN d ELSE x

\* Faulty variant of RoundToHundredths: Math.floor in place of Math.round
TruncateToHundredths(num, den) == (100 * num) \div den

\* The rational num/den rounded half up to 2 decimals, in hundredths:
\* Math.round((num/den) * 100)
RoundToHundredths(num, den) == (200 * num + den) \div (2 * den)

\* round2(n) of a number n already held in hundredths (NaN stays NaN)
round2(n) == IF n = NaN THEN NaN ELSE RoundToHundredths(n, 100)

RECURSIVE SumSeq(_)
SumSeq(s) == IF s = <<>> THEN 0 ELSE Head(s) + SumSeq(Tail(s))

-----------------------------------------------------------------------------
(* computeRunScore *)

\* s.attempt ?? 1
AttemptOf(s) == OrElse(s.attempt, 1)

\* Faulty variant of Relevant: the filter forgets the run
RelevantAnyRun(ss, categoryId, athleteBib, run) ==
    SelectSeq(ss, LAMBDA s : /\ s.categoryId = categoryId
                             /\ s.athleteBib = athleteBib)

\* scores.filter(categoryId, athleteBib, run)
Relevant(ss, categoryId, athleteBib, run) ==
    SelectSeq(ss, LAMBDA s : /\ s.categoryId = categoryId
                             /\ s.athleteBib = athleteBib
                             /\ s.run = run)

\* The keys of the Map byAttempt in insertion order: each attempt number at
\* the place of its first score.
RECURSIVE ByAttemptKeys(_, _)
ByAttemptKeys(rel, keys) ==
    IF rel = <<>> THEN keys
    ELSE LET att == AttemptOf(Head(rel))
         IN  ByAttemptKeys(Tail(rel),
                 IF \E i \in 1..Len(keys) : keys[i] = att
                 THEN keys ELSE Append(keys, att))

\* byAttempt.get(att): the scores of one attempt, in input order
AttemptScores(rel, att) == SelectSeq(rel, LAMBDA s : AttemptOf(s) = att)

\* Faulty variant of JudgeValue: a missing judge counts as 0
JudgeValueOrZero(attemptScores, role) ==
    LET hits == SelectSeq(attemptScores, LAMBDA s : s.judgeRole = role)
    IN  IF hits = <<>> THEN 0 ELSE Head(hits).value

\* attemptScores.find(sc => sc.judgeRole === role)?.value ?? null
JudgeValue(attemptScores, role) ==
    LET hits == SelectSeq(attemptScores, LAMBDA s : s.judgeRole = role)
    IN  IF hits = <<>> THEN Null ELSE OrElse(Head(hits).value, Null)

\* The RunScoreResult of one attempt group
AttemptResult(attempt, attemptScores) ==
    LET judgeMap == [role \in {JUDGE_ROLES[i] : i \in 1..Len(JUDGE_ROLES)} |->
                        JudgeValue(attemptScores, role)]
        values == SelectSeq([i \in 1..Len(JUDGE_ROLES) |-> judgeMap[JUDGE_ROLES[i]]],
                            LAMBDA v : v # Null)
        complete == Len(values) = Len(JUDGE_ROLES)
        average == IF Len(values) > 0
                   THEN RoundToHundredths(SumSeq(values), Len(values))
                   ELSE Null
    IN  [complete |-> complete, average |-> average,
         attempt |-> attempt, scores |-> judgeMap]

\* Faulty variant of PickBest: the higher average wins, complete or not
PickBestByAverageOnly(best, result) ==
    IF best = NullResult THEN result
    ELSE IF OrElse(result.average, -100) > OrElse(best.average, -100)
         THEN result ELSE best

\* Faulty variant of PickBest: on equal averages the later attempt wins
PickBestLastOnTie(best, result) ==
    IF best = NullResult THEN result
    ELSE IF result.complete /\ ~best.complete THEN result
    ELSE IF result.complete = best.complete
         THEN IF OrElse(result.average, -100) >= OrElse(best.average, -100)
              THEN result ELSE best
         ELSE best

\* Faulty variant of PickBest: the attempt seen first stays
PickBestFirstSeen(best, result) ==
    IF best = NullResult THEN result ELSE best

\* One turn of the selection: complete before incomplete, then the strictly
\* higher average; otherwise the earlier result stays.
PickBest(best, result) ==
    IF best = NullResult THEN result
    ELSE IF result.complete /\ ~best.complete THEN result
    ELSE IF result.complete = best.complete
         THEN IF OrElse(result.average, -100) > OrElse(best.average, -100)
              THEN result ELSE best
         ELSE best

RECURSIVE BestOfAttempts(_, _, _)
BestOfAttempts(rel, keys, best) ==
    IF keys = <<>> THEN best
    ELSE BestOfAttempts(rel, Tail(keys),
             PickBest(best, AttemptResult(Head(keys), AttemptScores(rel, Head(keys)))))

computeRunScore(ss, categoryId, athleteBib, run) ==
    LET relevant == Relevant(ss, categoryId, athleteBib, run)
    IN  IF Len(relevant) = 0 THEN NullResult
        ELSE BestOfAttempts(relevant, ByAttemptKeys(relevant, <<>>), NullResult)

-----------------------------------------------------------------------------
(* computeFinalScore *)

\* bestAverage * cat.weight / 100, rounded: a category without a weight
\* field makes the product NaN.
Weighted(bestAverage, weight) ==
    IF weight = Undefined \/ weight = NaN \/ bestAverage = NaN THEN NaN
    ELSE RoundToHundredths(bestAverage * weight, 10000)

\* a + b on numbers, NaN absorbing
Plus(a, b) == IF a = NaN \/ b = NaN THEN NaN ELSE a + b

\* Faulty variant of BestRun: on equal averages run 2 is taken
BestRunSecondOnTie(run1, run2) ==
    IF run1 # NullResult /\ run2 # NullResult
    THEN IF run1.complete /\ ~run2.complete THEN 1
         ELSE IF run2.complete /\ ~run1.complete THEN 2
         ELSE IF OrElse(run1.average, -100) > OrElse(run2.average, -100)
              THEN 1 ELSE 2
    ELSE IF run1 # NullResult THEN 1
    ELSE IF run2 # NullResult THEN 2
    ELSE Null

\* Which run is the best one: 1, 2 or Null
BestRun(run1, run2) ==
    IF run1 # NullResult /\ run2 # NullResult
    THEN IF run1.complete /\ ~run2.complete THEN 1
         ELSE IF run2.complete /\ ~run1.complete THEN 2
         ELSE IF OrElse(run1.average, -100) >= OrElse(run2.average, -100)
              THEN 1 ELSE 2
    ELSE IF run1 # NullResult THEN 1
    ELSE IF run2 # NullResult THEN 2
    ELSE Null

\* The CategoryScoreDetail built from the two run results and the best run
BestRunDetail(cat, run1, run2, bestRun) ==
    LET bestResult == IF bestRun = 1 THEN run1
                      ELSE IF bestRun = 2 THEN run2 ELSE NullResult
        bestAverage == IF bestResult # NullResult THEN bestResult.average ELSE Null
        bestAttempt == IF bestResult # NullResult THEN bestResult.attempt ELSE Null
        catComplete == IF bestResult # NullResult THEN bestResult.complete ELSE FALSE
        weighted == IF bestAverage # Null
                    THEN Weighted(bestAverage, cat.weight) ELSE Null
    IN  [categoryId |-> cat.id, categoryName |-> cat.name, weight |-> cat.weight,
         bestRun |-> bestRun, bestAverage |-> bestAverage,
         bestAttempt |-> bestAttempt, weighted |-> weighted,
         complete |-> catComplete, run1 |-> run1, run2 |-> run2]

RunsDetail(cat, run1, run2) == BestRunDetail(cat, run1, run2, BestRun(run1, run2))

\* The CategoryScoreDetail of one category for one athlete
CategoryDetail(ss, cat, athlete) ==
    RunsDetail(cat, computeRunScore(ss, cat.id, athlete.bib, 1),
                    computeRunScore(ss, cat.id, athlete.bib, 2))

\* One turn of the loop over the categories: acc holds categoryScores,
\* allComplete, hasAnyScore and weightedSum, d is the category's detail.
AddCategory(acc, d) ==
    [categoryScores |-> Append(acc.categoryScores, d),
     allComplete |-> acc.allComplete /\ d.complete,
     hasAnyScore |-> acc.hasAnyScore \/ d.weighted # Null,
     weightedSum |-> IF d.weighted # Null
                     THEN Plus(acc.weightedSum, d.weighted)
                     ELSE acc.weightedSum]

RECURSIVE CategoryLoop(_, _, _, _)
CategoryLoop(ss, cats, athlete, acc) ==
    IF cats = <<>> THEN acc
    ELSE CategoryLoop(ss, Tail(cats), athlete,
                      AddCategory(acc, CategoryDetail(ss, Head(cats), athlete)))

\* Faulty variant of FinalScoreResult: the total is the sum even when
\* nothing was added to it
FinalScoreResultZeroTotal(cats, athlete, acc) ==
    [athleteBib |-> athlete.bib, athleteName |-> athlete.name,
     complete |-> acc.allComplete /\ Len(cats) > 0,
     weightedTotal |-> round2(acc.weightedSum),
     categoryScores |-> acc.categoryScores]

\* Faulty variant of FinalScoreResult: the length test of the complete flag
\* is gone
FinalScoreResultEmptyComplete(cats, athlete, acc) ==
    [athleteBib |-> athlete.bib, athleteName |-> athlete.name,
     complete |-> acc.allComplete,
     weightedTotal |-> IF acc.hasAnyScore THEN round2(acc.weightedSum) ELSE Null,
     categoryScores |-> acc.categoryScores]

\* The returned AthleteFinalScore, from what the loop accumulated
FinalScoreResult(cats, athlete, acc) ==
    [athleteBib |-> athlete.bib, athleteName |-> athlete.name,
     complete |-> acc.allComplete /\ Len(cats) > 0,
     weightedTotal |-> IF acc.hasAnyScore THEN round2(acc.weightedSum) ELSE Null,
     categoryScores |-> acc.categoryScores]

computeFinalScore(ss, cats, athlete) ==
    FinalScoreResult(cats, athlete,
        CategoryLoop(ss, cats, athlete,
            [categoryScores |-> <<>>, allComplete |-> TRUE,
             hasAnyScore |-> FALSE, weightedSum |-> 0]))

-----------------------------------------------------------------------------
(* rankAthletes *)

\* The comparator of scored.sort: (b.weightedTotal ?? 0) - (a.weightedTotal
\* ?? 0), as its sign; a NaN difference counts as 0 in Array.prototype.sort.
CompareTotalDesc(a, b) ==
    LET x == OrElse(a.weightedTotal, 0)
        y == OrElse(b.weightedTotal, 0)
    IN  IF x = NaN \/ y = NaN THEN 0
        ELSE IF y > x THEN 1 ELSE IF y < x THEN -1 ELSE 0

\* Faulty variant of CompareRankBib: equal ranks compare equal
CompareRankOnly(a, b) ==
    IF a.rank # b.rank
    THEN (IF a.rank > b.rank THEN 1 ELSE -1)
    ELSE 0

\* The comparator of ranked.sort: a.rank - b.rank || a.athleteBib - b.athleteBib
CompareRankBib(a, b) ==
    IF a.rank # b.rank
    THEN (IF a.rank > b.rank THEN 1 ELSE -1)
    ELSE IF a.athleteBib > b.athleteBib THEN 1
    ELSE IF a.athleteBib < b.athleteBib THEN -1 ELSE 0

\* Array.prototype.sort is stable: x goes before the first element the
\* comparator puts after it, behind every element that compares equal.
InsertAt(sorted, x, i) ==
    SubSeq(sorted, 1, i - 1) \o <<x>> \o SubSeq(sorted, i, Len(sorted))

InsertByTotal(sorted, x) ==
    LET after == {i \in 1..Len(sorted) : CompareTotalDesc(sorted[i], x) > 0}
    IN  IF after = {} THEN Append(sorted, x)
        ELSE InsertAt(sorted, x, CHOOSE i \in after : \A j \in after : i <= j)

RECURSIVE SortByTotalDesc(_)
SortByTotalDesc(s) ==
    IF s = <<>> THEN <<>>
    ELSE InsertByTotal(SortByTotalDesc(SubSeq(s, 1, Len(s) - 1)), s[Len(s)])

InsertByRankBib(sorted, x) ==
    LET after == {i \in 1..Len(sorted) : CompareRankBib(sorted[i], x) > 0}
    IN  IF after = {} THEN Append(sorted, x)
        ELSE InsertAt(sorted, x, CHOOSE i \in after : \A j \in after : i <= j)

RECURSIVE SortByRankBib(_)
SortByRankBib(s) ==
    IF s = <<>> THEN <<>>
    ELSE InsertByRankBib(SortByRankBib(SubSeq(s, 1, Len(s) - 1)), s[Len(s)])

\* a !== b on numbers: NaN differs from everything, itself included
StrictNotEqual(a, b) == a = NaN \/ b = NaN \/ a # b

\* {...f, rank}
WithRank(f, rank) ==
    [athleteBib |-> f.athleteBib, athleteName |-> f.athleteName,
     complete |-> f.complete, weightedTotal |-> f.weightedTotal,
     categoryScores |-> f.categoryScores, rank |-> rank]

\* The rank loop over the sorted scored athletes: currentRank becomes i where
\* the total differs from the one before.
RECURSIVE AssignRanks(_, _, _, _)
AssignRanks(sorted, i, currentRank, ranked) ==
    IF i > Len(sorted) THEN ranked
    ELSE LET r == IF i > 1 /\ StrictNotEqual(sorted[i].weightedTotal,
                                             sorted[i - 1].weightedTotal)
                  THEN i ELSE currentRank
         IN  AssignRanks(sorted, i + 1, r, Append(ranked, WithRank(sorted[i], r)))

\* Faulty variant of MergeRanked: the unscored athletes take the rank after
\* the last assigned rank instead of the number of scored athletes plus one
MergeRankedAfterLastRank(ranked, unscored) ==
    LET lastRank == IF Len(ranked) > 0 THEN ranked[Len(ranked)].rank + 1 ELSE 1
    IN  SortByRankBib(ranked \o [i \in 1..Len(unscored) |-> WithRank(unscored[i], lastRank)])

\* Unscored athletes share the rank after the last scored one; the final
\* sort is by rank, then bib.
MergeRanked(ranked, unscored) ==
    LET lastRank == IF Len(ranked) > 0 THEN Len(ranked) + 1 ELSE 1
    IN  SortByRankBib(ranked \o [i \in 1..Len(unscored) |-> WithRank(unscored[i], lastRank)])

\* Faulty variant of RankFinals: the unscored athletes are left out
RankFinalsScoredOnly(finals) ==
    MergeRanked(
        AssignRanks(SortByTotalDesc(SelectSeq(finals, LAMBDA f : f.weightedTotal # Null)),
                    1, 1, <<>>),
        <<>>)

RankFinals(finals) ==
    MergeRanked(
        AssignRanks(SortByTotalDesc(SelectSeq(finals, LAMBDA f : f.weightedTotal # Null)),
                    1, 1, <<>>),
        SelectSeq(finals, LAMBDA f : f.weightedTotal = Null))

rankAthletes(ss, cats, aths) ==
    RankFinals([i \in 1..Len(aths) |-> computeFinalScore(ss, cats, aths[i])])

-----------------------------------------------------------------------------
(* The stored event (src/lib/store.ts, src/lib/types.ts) and the key checks *)

\* `string | null` that is null, and a JSON value that is not a string
NullId == "<null>"
NotAString == "<not a string>"

\* validateJudgeKey returning null
NoRole == "<null>"

\* categories.find(...) returning undefined
NoCategory == [undefined |-> TRUE]

\* !s for a `string | null`: null and the empty string are falsy
Falsy(s) == s = NullId \/ s = ""

\* array.includes(x)
Includes(arr, x) == \E i \in 1..Len(arr) : arr[i] = x

\* {...a, ...b}
Spread(a, b) ==
    [f \in DOMAIN a \cup DOMAIN b |-> IF f \in DOMAIN b THEN b[f] ELSE a[f]]

\* A category as stored in the event
StoredCategory(id, weight, roster) ==
    [id |-> id, name |-> id, weight |-> weight, athletes |-> roster]

\* validateJudgeKey(key): the first judge role whose stored key equals key
validateJudgeKey(ev, key) ==
    IF Falsy(key) THEN NoRole
    ELSE IF ev = NoEvent THEN NoRole
    ELSE LET hits == SelectSeq(JUDGE_ROLES, LAMBDA role : key = ev.judgeKeys[role])
         IN  IF hits = <<>> THEN NoRole ELSE Head(hits)

\* validateAdminKey(key)
validateAdminKey(ev, key) ==
    IF Falsy(key) THEN FALSE
    ELSE IF ev = NoEvent THEN FALSE
    ELSE key = ev.adminKey

\* updateEvent(patch) on a stored event, when the save succeeds:
\* {...existing, ...patch}
updateEventKeepingStored(existing, patch) == Spread(patch, existing)

updateEvent(existing, patch) == Spread(existing, patch)

\* typeof obj[f] === 'string' && !!obj[f]
NonEmptyString(obj, f) == f \in DOMAIN obj /\ obj[f] # NotAString /\ obj[f] # ""

\* isAthlete(value)
isAthlete(value) ==
    /\ "bib" \in DOMAIN value /\ value.bib \in Int /\ value.bib > 0
    /\ NonEmptyString(value, "name")

\* isCategory(value): athletes may be missing
isCategory(value) ==
    /\ NonEmptyString(value, "id")
    /\ NonEmptyString(value, "name")
    /\ "athletes" \in DOMAIN value =>
           \A i \in 1..Len(value.athletes) : isAthlete(value.athletes[i])

\* isEventData(value).  categories, scores, lockedRuns and liveState may be
\* missing; where a value of this model is present it is an array, and the
\* live state's category id is a string or null and its numbers are numbers,
\* so of the type checks on them the one on activeRun is left.
isEventData(value) ==
    /\ value # NoEvent
    /\ NonEmptyString(value, "id")
    /\ NonEmptyString(value, "name")
    /\ NonEmptyString(value, "createdAt")
    /\ NonEmptyString(value, "adminKey")
    /\ "judgeKeys" \in DOMAIN value
    /\ \A i \in 1..Len(JUDGE_ROLES) : NonEmptyString(value.judgeKeys, JUDGE_ROLES[i])
    /\ "categories" \in DOMAIN value =>
           \A i \in 1..Len(value.categories) : isCategory(value.categories[i])
    /\ "liveState" \in DOMAIN value => value.liveState.activeRun \in {1, 2}

\* validateEventData(data): the error message, or null
validateEventData(data) ==
    IF ~isEventData(data)
    THEN "EventData must have non-empty id, name, and createdAt (ISO 8601 timestamp)"
    ELSE NullId

\* loadEvent() on the content of data/event.json: null when the file does not
\* exist or what it holds is no EventData
loadEvent(file) ==
    IF file = NoEvent THEN NoEvent
    ELSE IF validateEventData(file) # NullId THEN NoEvent
    ELSE file

\* A file that does not exist
NoFile == [exists |-> FALSE]

\* A file holding JSON.stringify(data), or the beginning of it when the write
\* did not complete
FileOf(data, complete) == [exists |-> TRUE, data |-> data, complete |-> complete]

NoPatch == [f \in {} |-> TRUE]

NoStoreCall == [fn |-> "none", data |-> NoEvent, patch |-> NoPatch, before |-> NoEvent]

NoOutcome == [kind |-> "none", value |-> NoEvent]

\* No call of the store was made
StoreIdle ==
    /\ tempFile = NoFile
    /\ pc = "idle"
    /\ storeCall = NoStoreCall
    /\ outcome = NoOutcome
    /\ storeCalls = 0

\* categories.find(c => c.id === id)
FindCategory(cats, id) ==
    LET hits == SelectSeq(cats, LAMBDA c : c.id = id)
    IN  IF hits = <<>> THEN NoCategory ELSE Head(hits)

\* `${categoryId}:${run}`: one key per category id and run
LockKey(categoryId, run) == <<categoryId, run>>

\* Math.min(Math.max(index, 0), count - 1)
ClampIndex(index, count) ==
    LET low == IF index > 0 THEN index ELSE 0
    IN  IF low < count - 1 THEN low ELSE count - 1

-----------------------------------------------------------------------------
(* POST /api/score (src/app/api/auth/validate/route.ts) *)

\* typeof value === 'number' && Number.isInteger(value) && 1 <= value <= 100
ValidValue(value) == value \in 1..100

Response(route, status, body) == [route |-> route, status |-> status, body |-> body]

\* Faulty variant of Upsert: the score is pushed without the filter
UpsertAppendOnly(stored, score) == Append(stored, score)

\* The stored scores without the one of the same judge, category, athlete
\* and run, and the new score pushed at the end
Upsert(stored, score) ==
    Append(SelectSeq(stored,
               LAMBDA s : ~(/\ s.judgeRole = score.judgeRole
                            /\ s.categoryId = score.categoryId
                            /\ s.athleteBib = score.athleteBib
                            /\ s.run = score.run)),
           score)

\* The Score the handler builds: it has no attempt field
NewScore(role, live, athlete, value) ==
    [judgeRole |-> role, categoryId |-> live.activeCategoryId,
     athleteBib |-> athlete.bib, run |-> live.activeRun,
     attempt |-> Undefined, value |-> value]

Accepted(ev, score) == [status |-> 201, score |-> score, scores |-> Upsert(ev.scores, score)]

\* The handler after the body arrived: ev is the event it loaded before.
\* Gives the status and, for 201, the score and the new score list.
PostScore(ev, role, value) ==
    LET live == ev.liveState
        category == FindCategory(ev.categories, live.activeCategoryId)
    IN  IF ~ValidValue(value) THEN [status |-> 400]
        ELSE IF Falsy(live.activeCategoryId) THEN [status |-> 409]
        ELSE IF category = NoCategory THEN [status |-> 409]
        ELSE IF Len(category.athletes) = 0 THEN [status |-> 409]
        ELSE IF Includes(ev.lockedRuns, LockKey(live.activeCategoryId, live.activeRun))
             THEN [status |-> 423]
        ELSE Accepted(ev, NewScore(role, live,
                               category.athletes[
                                   ClampIndex(live.activeAthleteIndex,
                                              Len(category.athletes)) + 1],
                               value))

-----------------------------------------------------------------------------
(* PUT /api/admin/live (src/app/api/admin/live/route.ts).  A body is a     *)
(* record of the fields the request carries: 'f' in body is                *)
(* "f" \in DOMAIN body.                                                     *)

Has(body, field) == field \in DOMAIN body

\* One of the three type checks answers 400
BadLiveBody(body) ==
    \/ Has(body, "activeCategoryId") /\ body.activeCategoryId = NotAString
    \/ Has(body, "activeRun") /\ body.activeRun \notin {1, 2}
    \/ Has(body, "activeAthleteIndex") /\ body.activeAthleteIndex < 0

\* body.activeCategoryId is taken over; a changed category resets the
\* athlete index and the attempt number
WithCategory(live, body) ==
    IF ~Has(body, "activeCategoryId") THEN live
    ELSE IF body.activeCategoryId # live.activeCategoryId
         THEN [live EXCEPT !.activeCategoryId = body.activeCategoryId,
                           !.activeAthleteIndex = 0,
                           !.activeAttemptNumber = 1]
         ELSE live

\* body.activeRun is taken over; a run other than the current one resets
\* the attempt number
WithRun(updated, currentLive, body) ==
    IF ~Has(body, "activeRun") THEN updated
    ELSE IF body.activeRun # currentLive.activeRun
         THEN [updated EXCEPT !.activeRun = body.activeRun,
                              !.activeAttemptNumber = 1]
         ELSE updated

WithIndex(updated, body) ==
    IF ~Has(body, "activeAthleteIndex") THEN updated
    ELSE [updated EXCEPT !.activeAthleteIndex = body.activeAthleteIndex]

\* cat?.athletes.length ?? 0
AthleteCount(cats, id) ==
    IF FindCategory(cats, id) = NoCategory THEN 0
    ELSE Len(FindCategory(cats, id).athletes)

\* Clamp activeAthleteIndex to the roster of the active category
Clamped(updated, cats) ==
    IF Falsy(updated.activeCategoryId) THEN updated
    ELSE IF AthleteCount(cats, updated.activeCategoryId) = 0
         THEN [updated EXCEPT !.activeAthleteIndex = 0]
    ELSE IF updated.activeAthleteIndex >= AthleteCount(cats, updated.activeCategoryId)
         THEN [updated EXCEPT !.activeAthleteIndex =
                                  AthleteCount(cats, updated.activeCategoryId) - 1]
    ELSE updated

\* rerun === true increments the attempt number
WithRerun(updated, body) ==
    IF Has(body, "rerun") /\ body.rerun = TRUE
    THEN [updated EXCEPT !.activeAttemptNumber = OrElse(@, 1) + 1]
    ELSE updated

\* The live state after the request
UpdatedLive(ev, body) ==
    WithRerun(
        Clamped(
            WithIndex(WithRun(WithCategory(ev.liveState, body), ev.liveState, body),
                      body),
            ev.categories),
        body)

\* The patch: the live state and, for lock or unlock of an active category,
\* the new lockedRuns
LivePatch(ev, updated, body) ==
    IF Has(body, "lock") /\ ~Falsy(updated.activeCategoryId)
    THEN IF body.lock /\ ~Includes(ev.lockedRuns,
                                   LockKey(updated.activeCategoryId, updated.activeRun))
         THEN [liveState |-> updated,
               lockedRuns |-> Append(ev.lockedRuns,
                                     LockKey(updated.activeCategoryId, updated.activeRun))]
         ELSE IF ~body.lock
         THEN [liveState |-> updated,
               lockedRuns |-> SelectSeq(ev.lockedRuns,
                                  LAMBDA k : k # LockKey(updated.activeCategoryId,
                                                         updated.activeRun))]
         ELSE [liveState |-> updated]
    ELSE [liveState |-> updated]

\* The handler after the body arrived: ev is the event it loaded before
PutLive(ev, body) ==
    IF BadLiveBody(body) THEN [status |-> 400]
    ELSE [status |-> 200, patch |-> LivePatch(ev, UpdatedLive(ev, body), body)]

-----------------------------------------------------------------------------
(* The inputs the engine is applied to *)

\* Bounds of the inputs
MaxScores == 6

CatIds == <<"c1", "c2">>
Weights == {Undefined, 50, 100}
Names == <<"Alice", "Bob", "Charlie">>
Runs == {1, 2}

\* A Category as stored: by POST /api/admin/categories with a weight 0..100,
\* or (the Category type) without a weight field.
Category(id, weight) == [id |-> id, name |-> id, weight |-> weight]

Athlete(bib) == [bib |-> bib, name |-> Names[bib]]

Score(judgeRole, categoryId, athleteBib, run, attempt, value) ==
    [judgeRole |-> judgeRole, categoryId |-> categoryId, athleteBib |-> athleteBib,
     run |-> run, attempt |-> attempt, value |-> value]

RECURSIVE Reverse(_)
Reverse(s) == IF s = <<>> THEN <<>> ELSE Append(Reverse(Tail(s)), Head(s))

\* Sequences over S without repetition, up to length n
RECURSIVE Arrangements(_, _)
Arrangements(S, n) ==
    IF n = 0 THEN {<<>>}
    ELSE LET shorter == Arrangements(S, n - 1)
             longer == UNION {{Append(s, x) : x \in S \ {s[i] : i \in 1..Len(s)}} :
                                 s \in shorter}
         IN  shorter \cup longer

\* Category lists: each arrangement of the category ids, every category with
\* the same weight (or every one without).
CategoryLists ==
    {[i \in 1..Len(ids) |-> Category(ids[i], w)] :
        ids \in Arrangements({CatIds[i] : i \in 1..Len(CatIds)}, Len(CatIds)),
        w \in Weights}

\* Score slots of the run under test (c1, bib 1, run 1): every judge in two
\* attempts, judge-major so that the attempts interleave, and one slot each
\* in another category, for another athlete and in the other run.
RunSlots ==
    [i \in 1..6 |-> [judgeRole |-> JUDGE_ROLES[((i - 1) \div 2) + 1],
                     categoryId |-> "c1", athleteBib |-> 1, run |-> 1,
                     attempt |-> ((i - 1) % 2) + 1, vals |-> {60, 95}]]
    \o << [judgeRole |-> "J1", categoryId |-> "c2", athleteBib |-> 1, run |-> 1,
           attempt |-> 1, vals |-> {95}],
          [judgeRole |-> "J1", categoryId |-> "c1", athleteBib |-> 2, run |-> 1,
           attempt |-> 1, vals |-> {95}],
          [judgeRole |-> "J1", categoryId |-> "c1", athleteBib |-> 1, run |-> 2,
           attempt |-> 1, vals |-> {95}] >>

\* The scores of the chosen slots, in slot order
RECURSIVE FromSlots(_, _, _, _)
FromSlots(slots, chosen, value, i) ==
    IF i > Len(slots) THEN <<>>
    ELSE (IF i \in chosen
          THEN << Score(slots[i].judgeRole, slots[i].categoryId, slots[i].athleteBib,
                        slots[i].run, slots[i].attempt, value[i]) >>
          ELSE <<>>) \o FromSlots(slots, chosen, value, i + 1)

\* What the judges of one attempt submitted: nobody, one judge, two judges,
\* all three.
Patterns ==
    << <<>>,
       << <<"J1", 95>> >>,
       << <<"J2", 60>> >>,
       << <<"J1", 60>>, <<"J2", 60>>, <<"J3", 60>> >>,
       << <<"J3", 60>>, <<"J1", 95>>, <<"J2", 60>> >>,
       << <<"J2", 60>>, <<"J3", 95>> >> >>

Cell(categoryId, athleteBib, run, attempt, pats) ==
    [categoryId |-> categoryId, athleteBib |-> athleteBib, run |-> run,
     attempt |-> attempt, pats |-> pats]

CellScores(cell, pat) ==
    [k \in 1..Len(pat) |-> Score(pat[k][1], cell.categoryId, cell.athleteBib,
                                 cell.run, cell.attempt, pat[k][2])]

\* The scores of the cells, cell after cell, each with its chosen pattern
RECURSIVE FromCells(_, _, _)
FromCells(cells, choice, i) ==
    IF i > Len(cells) THEN <<>>
    ELSE CellScores(cells[i], Patterns[choice[i]]) \o FromCells(cells, choice, i + 1)

\* Both runs of athlete 1 in both categories, a second attempt of one run,
\* and a run of athlete 2.
FinalCells ==
    << Cell("c1", 1, 1, 1, 1..6), Cell("c1", 1, 2, 1, 1..6),
       Cell("c2", 1, 1, 1, 1..6), Cell("c2", 1, 2, 1, 1..6),
       Cell("c1", 1, 1, 2, {1, 2, 4}), Cell("c1", 2, 1, 1, {1, 2}) >>

\* One run of each of three athletes in one category
RankCells ==
    << Cell("c1", 1, 1, 1, 1..6), Cell("c1", 2, 1, 1, 1..6),
       Cell("c1", 3, 1, 1, 1..6) >>

CellInputs(cells) ==
    {ss \in {FromCells(cells, choice, 1) :
                choice \in {c \in [1..Len(cells) -> 1..Len(Patterns)] :
                               \A i \in 1..Len(cells) : c[i] \in cells[i].pats}} :
        Len(ss) <= MaxScores}

FinalInputs == CellInputs(FinalCells)

RankInputs == CellInputs(RankCells)

\* No category, or the one category the athletes are scored in
RankCategoryLists ==
    {cl \in CategoryLists : Len(cl) = 0 \/ (Len(cl) = 1 /\ cl[1].id = "c1")}

\* Every roster of up to three athletes, in every order
Rosters ==
    {[i \in 1..Len(bibs) |-> Athlete(bibs[i])] :
        bibs \in Arrangements(1..Len(Names), Len(Names))}

-----------------------------------------------------------------------------
(* Specifications: the inputs are drawn at the start, the actions call the  *)
(* engine on them.                                                          *)

NoCall == [fn |-> "none"]

\* computeRunScore on score lists drawn from RunSlots, in slot order or
\* reversed
InitRun ==
    /\ \E chosen \in SUBSET (1..Len(RunSlots)) :
         /\ Cardinality(chosen) <= MaxScores
         /\ \E value \in [chosen -> {60, 95}] :
              /\ \A i \in chosen : value[i] \in RunSlots[i].vals
              /\ \E reversed \in BOOLEAN :
                   scores = IF reversed
                            THEN Reverse(FromSlots(RunSlots, chosen, value, 1))
                            ELSE FromSlots(RunSlots, chosen, value, 1)
    /\ categories = <<>>
    /\ athletes = <<>>
    /\ call = NoCall
    /\ ret = NullResult
    /\ event = NoEvent
    /\ inflight = <<>>
    /\ response = NoResponse
    /\ requests = 0
    /\ StoreIdle

\* computeFinalScore on the scores of FinalCells and every category list
InitFinal ==
    /\ scores \in FinalInputs
    /\ categories \in CategoryLists
    /\ athletes = <<>>
    /\ call = NoCall
    /\ ret = NullResult
    /\ event = NoEvent
    /\ inflight = <<>>
    /\ response = NoResponse
    /\ requests = 0
    /\ StoreIdle

\* rankAthletes on the scores of RankCells, one category or none, and every
\* roster of the three athletes in every order
InitRank ==
    /\ scores \in RankInputs
    /\ categories \in RankCategoryLists
    /\ athletes \in Rosters
    /\ call = NoCall
    /\ ret = NullResult
    /\ event = NoEvent
    /\ inflight = <<>>
    /\ response = NoResponse
    /\ requests = 0
    /\ StoreIdle

CallComputeRunScore(categoryId, athleteBib, run) ==
    /\ call' = [fn |-> "computeRunScore", categoryId |-> categoryId,
                athleteBib |-> athleteBib, run |-> run]
    /\ ret' = computeRunScore(scores, categoryId, athleteBib, run)
    /\ UNCHANGED <<scores, categories, athletes>>
    /\ UNCHANGED serverVars
    /\ UNCHANGED storeVars

CallComputeFinalScore(athlete) ==
    /\ call' = [fn |-> "computeFinalScore", athlete |-> athlete]
    /\ ret' = computeFinalScore(scores, categories, athlete)
    /\ UNCHANGED <<scores, categories, athletes>>
    /\ UNCHANGED serverVars
    /\ UNCHANGED storeVars

\* Faulty variant of CallRankAthletes: the roster itself is sorted in place
CallRankAthletesSortingRoster ==
    /\ call' = [fn |-> "rankAthletes"]
    /\ ret' = rankAthletes(scores, categories, athletes)
    /\ athletes' = [i \in 1..Len(athletes) |->
                       Athlete(rankAthletes(<<>>, <<>>, athletes)[i].athleteBib)]
    /\ UNCHANGED <<scores, categories>>
    /\ UNCHANGED serverVars
    /\ UNCHANGED storeVars

CallRankAthletes ==
    /\ call' = [fn |-> "rankAthletes"]
    /\ ret' = rankAthletes(scores, categories, athletes)
    /\ UNCHANGED <<scores, categories, athletes>>
    /\ UNCHANGED serverVars
    /\ UNCHANGED storeVars

NextRun ==
    \E categoryId \in {CatIds[i] : i \in 1..Len(CatIds)}, athleteBib \in {1, 2}, run \in Runs :
        CallComputeRunScore(categoryId, athleteBib, run)

NextFinal == \E bib \in {1, 2} : CallComputeFinalScore(Athlete(bib))

NextRank == CallRankAthletes

\* The three functions called in any order on one set of inputs, as readers
\* sharing the stored event do
InitEngine ==
    /\ scores \in RankInputs
    /\ categories \in RankCategoryLists
    /\ athletes \in Rosters
    /\ call = NoCall
    /\ ret = NullResult
    /\ event = NoEvent
    /\ inflight = <<>>
    /\ response = NoResponse
    /\ requests = 0
    /\ StoreIdle

NextEngine == NextRun \/ NextFinal \/ NextRank

SpecRun == InitRun /\ [][NextRun]_vars
SpecFinal == InitFinal /\ [][NextFinal]_vars
SpecRank == InitRank /\ [][NextRank]_vars
SpecEngine == InitEngine /\ [][NextEngine]_vars

\* The engine called on a submission collection that is reordered between
\* the calls: the collection is a filter result of the stored scores, whose
\* order is the order of arrival.
MaxReordered == 4

ReorderInputs == {ss \in FinalInputs : Len(ss) <= MaxReordered}

ReorderCategoryLists == {cl \in CategoryLists : Len(cl) = 2 /\ cl[1].id = "c1"}

InitReorder ==
    /\ scores \in ReorderInputs
    /\ categories \in ReorderCategoryLists
    /\ athletes = <<Athlete(1), Athlete(2)>>
    /\ call = NoCall
    /\ ret = NullResult
    /\ event = NoEvent
    /\ inflight = <<>>
    /\ response = NoResponse
    /\ requests = 0
    /\ StoreIdle

\* The submissions at places i and i + 1 change places
Reorder(i) ==
    /\ scores' = [scores EXCEPT ![i] = scores[i + 1], ![i + 1] = scores[i]]
    /\ UNCHANGED <<categories, athletes, call, ret>>
    /\ UNCHANGED serverVars
    /\ UNCHANGED storeVars

NextReorder ==
    \/ \E i \in 1..(Len(scores) - 1) : Reorder(i)
    \/ NextEngine

SpecReorder == InitReorder /\ [][NextReorder]_vars

-----------------------------------------------------------------------------
(* The server: judges and the admin send requests to the stored event.  A  *)
(* handler runs in two steps, because it loads the event, then awaits the  *)
(* request body, then works on what it loaded: the requests of other       *)
(* clients can be served in between.                                       *)

\* Bounds of the server model
MaxInFlight == 2
MaxRequests == 4

\* Keys that requests carry: the admin key, the keys of J1 and J2, a key
\* that is none of the event's and the missing key
Keys == {"", "kA", "k1", "k2", "kX"}

\* Values a score body carries: not a number, out of range, valid
BodyValues == {Undefined, 0, 60, 95, 101}

\* An event after create-event, two categories and two athletes were added:
\* c1 with bibs 1 and 2, c2 without athletes
InitialEvent ==
    [id |-> "e1", name |-> "Event", createdAt |-> "2026-01-01T00:00:00.000Z",
     adminKey |-> "kA",
     judgeKeys |-> [J1 |-> "k1", J2 |-> "k2", J3 |-> "k3"],
     categories |-> << StoredCategory("c1", 100, <<Athlete(1), Athlete(2)>>),
                       StoredCategory("c2", 100, <<>>) >>,
     liveState |-> [activeCategoryId |-> NullId, activeRun |-> 1,
                    activeAthleteIndex |-> 0, activeAttemptNumber |-> 1],
     scores |-> <<>>,
     lockedRuns |-> <<>>]

\* The same event before and after the admin made c1 the active category
InitialEvents ==
    {InitialEvent, [InitialEvent EXCEPT !.liveState.activeCategoryId = "c1"]}

\* The bodies of PUT /api/admin/live: no field, one field or two fields, and
\* the three bodies that fail a type check
EmptyBody == [f \in {} |-> TRUE]

BodyFields ==
    {[activeCategoryId |-> id] : id \in {NullId, "c1", "c2", "cX"}}
        \cup {[activeRun |-> run] : run \in {1, 2}}
        \cup {[activeAthleteIndex |-> i] : i \in {0, 1, 5}}
        \cup {[rerun |-> TRUE]}
        \cup {[lock |-> b] : b \in BOOLEAN}

LiveBodies ==
    {EmptyBody}
        \cup {Spread(a, b) : a \in BodyFields, b \in BodyFields}
        \cup {[activeCategoryId |-> NotAString], [activeRun |-> 3],
              [activeAthleteIndex |-> Null]}

RemoveAt(s, i) == SubSeq(s, 1, i - 1) \o SubSeq(s, i + 1, Len(s))

InitServer ==
    /\ event \in InitialEvents
    /\ inflight = <<>>
    /\ response = NoResponse
    /\ requests = 0
    /\ StoreIdle
    /\ scores = <<>>
    /\ categories = <<>>
    /\ athletes = <<>>
    /\ call = NoCall
    /\ ret = NullResult

\* POST /api/score up to `await request.json()`: the key check and loadEvent
BeginPostScore(key) ==
    /\ requests < MaxRequests
    /\ requests' = requests + 1
    /\ IF validateJudgeKey(event, key) = NoRole
       THEN /\ response' = Response("POST /api/score", 401, NoBody)
            /\ UNCHANGED inflight
       ELSE IF event = NoEvent
       THEN /\ response' = Response("POST /api/score", 404, NoBody)
            /\ UNCHANGED inflight
       ELSE /\ Len(inflight) < MaxInFlight
            /\ inflight' = Append(inflight,
                               [route |-> "POST /api/score",
                                role |-> validateJudgeKey(event, key),
                                event |-> event])
            /\ UNCHANGED response
    /\ UNCHANGED event
    /\ UNCHANGED engineVars
    /\ UNCHANGED storeVars

\* POST /api/score from the body on: the checks, the upsert and updateEvent
FinishPostScore(i, value) ==
    /\ inflight[i].route = "POST /api/score"
    /\ LET out == PostScore(inflight[i].event, inflight[i].role, value)
       IN  IF out.status # 201
           THEN /\ response' = Response("POST /api/score", out.status, NoBody)
                /\ UNCHANGED event
           ELSE IF event = NoEvent
           THEN /\ response' = Response("POST /api/score", 500, NoBody)
                /\ UNCHANGED event
           ELSE /\ event' = updateEvent(event, [scores |-> out.scores])
                /\ response' = Response("POST /api/score", 201, out.score)
    /\ inflight' = RemoveAt(inflight, i)
    /\ UNCHANGED requests
    /\ UNCHANGED engineVars
    /\ UNCHANGED storeVars

\* PUT /api/admin/live up to `await request.json()`
BeginPutLive(key) ==
    /\ requests < MaxRequests
    /\ requests' = requests + 1
    /\ IF ~validateAdminKey(event, key)
       THEN /\ response' = Response("PUT /api/admin/live", 401, NoBody)
            /\ UNCHANGED inflight
       ELSE IF event = NoEvent
       THEN /\ response' = Response("PUT /api/admin/live", 404, NoBody)
            /\ UNCHANGED inflight
       ELSE /\ Len(inflight) < MaxInFlight
            /\ inflight' = Append(inflight,
                               [route |-> "PUT /api/admin/live",
                                role |-> "admin",
                                event |-> event])
            /\ UNCHANGED response
    /\ UNCHANGED event
    /\ UNCHANGED engineVars
    /\ UNCHANGED storeVars

\* PUT /api/admin/live from the body on
FinishPutLive(i, body) ==
    /\ inflight[i].route = "PUT /api/admin/live"
    /\ LET out == PutLive(inflight[i].event, body)
       IN  IF out.status # 200
           THEN /\ response' = Response("PUT /api/admin/live", out.status, NoBody)
                /\ UNCHANGED event
           ELSE IF event = NoEvent
           THEN /\ response' = Response("PUT /api/admin/live", 500, NoBody)
                /\ UNCHANGED event
           ELSE /\ event' = updateEvent(event, out.patch)
                /\ response' = Response("PUT /api/admin/live", 200, out.patch.liveState)
    /\ inflight' = RemoveAt(inflight, i)
    /\ UNCHANGED requests
    /\ UNCHANGED engineVars
    /\ UNCHANGED storeVars

Next ==
    \/ \E key \in Keys : BeginPostScore(key)
    \/ \E i \in 1..Len(inflight), value \in BodyValues : FinishPostScore(i, value)
    \/ \E key \in Keys : BeginPutLive(key)
    \/ \E i \in 1..Len(inflight), body \in LiveBodies : FinishPutLive(i, body)

Spec == InitServer /\ [][Next]_vars

-----------------------------------------------------------------------------
(* The store (src/lib/store.ts): saveEvent and updateEvent, one action per  *)
(* file operation.  Each file operation succeeds or fails with an I/O       *)
(* error, and the process can crash between any two of them.  In this       *)
(* specification `event` is the content of data/event.json, NoEvent when    *)
(* the file does not exist.                                                 *)

MaxStoreCalls == 3

\* What data/event.json holds at the start: nothing, or an event
StoredEvents == {NoEvent, InitialEvent}

\* The bad object of test T-ST04, and an event whose live state names run 3
MalformedEvents ==
    {[id |-> "", name |-> "", createdAt |-> ""],
     [InitialEvent EXCEPT !.liveState.activeRun = 3]}

\* The arguments of saveEvent
SaveInputs ==
    {[InitialEvent EXCEPT !.name = "Round Trip Event"],
     [InitialEvent EXCEPT !.scores = <<Score("J1", "c1", 1, 1, Undefined, 60)>>]}
        \cup MalformedEvents

\* The arguments of updateEvent: the patches of the tests and of the routes
Patches ==
    {[name |-> "Updated"],
     [name |-> ""],
     [scores |-> <<Score("J2", "c1", 2, 1, Undefined, 95)>>],
     [liveState |-> [InitialEvent.liveState EXCEPT !.activeCategoryId = "c1"],
      lockedRuns |-> <<LockKey("c1", 1)>>]}

Running == [kind |-> "running", value |-> NoEvent]

Threw == [kind |-> "threw", value |-> NoEvent]

Crashed == [kind |-> "crashed", value |-> NoEvent]

\* saveEvent returns nothing, updateEvent returns the merged event
Returned ==
    [kind |-> "returned",
     value |-> IF storeCall.fn = "updateEvent" THEN storeCall.data ELSE NoEvent]

InitStore ==
    /\ event \in StoredEvents
    /\ StoreIdle
    /\ inflight = <<>>
    /\ response = NoResponse
    /\ requests = 0
    /\ scores = <<>>
    /\ categories = <<>>
    /\ athletes = <<>>
    /\ call = NoCall
    /\ ret = NullResult

\* saveEvent(data) up to the first file operation: the validation
SaveEventBegins(data) ==
    IF validateEventData(data) # NullId
    THEN pc' = "idle" /\ outcome' = Threw
    ELSE pc' = "writeTemp" /\ outcome' = Running

CallSaveEvent(data) ==
    /\ pc = "idle"
    /\ storeCalls < MaxStoreCalls
    /\ storeCalls' = storeCalls + 1
    /\ storeCall' = [fn |-> "saveEvent", data |-> data, patch |-> NoPatch,
                     before |-> loadEvent(event)]
    /\ SaveEventBegins(data)
    /\ UNCHANGED <<event, tempFile>>
    /\ UNCHANGED <<inflight, response, requests>>
    /\ UNCHANGED engineVars

\* updateEvent(patch) up to the first file operation of its saveEvent
CallUpdateEvent(patch) ==
    /\ pc = "idle"
    /\ storeCalls < MaxStoreCalls
    /\ storeCalls' = storeCalls + 1
    /\ IF loadEvent(event) = NoEvent
       THEN /\ storeCall' = [fn |-> "updateEvent", data |-> NoEvent, patch |-> patch,
                             before |-> NoEvent]
            /\ pc' = "idle"
            /\ outcome' = Threw
       ELSE /\ storeCall' = [fn |-> "updateEvent",
                             data |-> updateEvent(loadEvent(event), patch),
                             patch |-> patch, before |-> loadEvent(event)]
            /\ SaveEventBegins(updateEvent(loadEvent(event), patch))
    /\ UNCHANGED <<event, tempFile>>
    /\ UNCHANGED <<inflight, response, requests>>
    /\ UNCHANGED engineVars

\* fs.writeFileSync(tempFile, JSON.stringify(data)): all of it is written, or
\* the write fails after a part of it or before any of it
WriteTemp(written) ==
    /\ pc = "writeTemp"
    /\ IF written = "all"
       THEN tempFile' = FileOf(storeCall.data, TRUE) /\ pc' = "rename"
       ELSE /\ tempFile' = IF written = "part" THEN FileOf(storeCall.data, FALSE)
                           ELSE tempFile
            /\ pc' = "cleanup"
    /\ UNCHANGED <<event, storeCall, outcome, storeCalls>>
    /\ UNCHANGED <<inflight, response, requests>>
    /\ UNCHANGED engineVars

\* fs.renameSync(tempFile, EVENT_FILE) moved the file
Renamed ==
    /\ event' = tempFile.data
    /\ tempFile' = NoFile
    /\ pc' = "idle"
    /\ outcome' = Returned

\* The first renameSync.  It fails when the temp directory is on another
\* file system than data/, or when the destination cannot be replaced; then
\* the catch block looks whether EVENT_FILE exists.
Rename(succeeds) ==
    /\ pc = "rename"
    /\ IF succeeds
       THEN Renamed
       ELSE /\ pc' = IF event # NoEvent THEN "unlink" ELSE "cleanup"
            /\ UNCHANGED <<event, tempFile, outcome>>
    /\ UNCHANGED <<storeCall, storeCalls>>
    /\ UNCHANGED <<inflight, response, requests>>
    /\ UNCHANGED engineVars

\* fs.unlinkSync(EVENT_FILE) of the fallback
Unlink(succeeds) ==
    /\ pc = "unlink"
    /\ IF succeeds
       THEN event' = NoEvent /\ pc' = "renameAgain"
       ELSE pc' = "cleanup" /\ UNCHANGED event
    /\ UNCHANGED <<tempFile, storeCall, outcome, storeCalls>>
    /\ UNCHANGED <<inflight, response, requests>>
    /\ UNCHANGED engineVars

\* The second renameSync, after the unlink
RenameAgain(succeeds) ==
    /\ pc = "renameAgain"
    /\ IF succeeds
       THEN Renamed
       ELSE pc' = "cleanup" /\ UNCHANGED <<event, tempFile, outcome>>
    /\ UNCHANGED <<storeCall, storeCalls>>
    /\ UNCHANGED <<inflight, response, requests>>
    /\ UNCHANGED engineVars

\* The outer catch block: remove the temp file, ignoring an error of the
\* removal, and throw
Cleanup(succeeds) ==
    /\ pc = "cleanup"
    /\ tempFile' = IF succeeds THEN NoFile ELSE tempFile
    /\ pc' = "idle"
    /\ outcome' = Threw
    /\ UNCHANGED <<event, storeCall, storeCalls>>
    /\ UNCHANGED <<inflight, response, requests>>
    /\ UNCHANGED engineVars

\* The process dies inside saveEvent; a death during the write of the temp
\* file can leave a part of it.  The files stay as they are and the next
\* process starts idle.
Crash(midWrite) ==
    /\ pc # "idle"
    /\ midWrite => pc = "writeTemp"
    /\ tempFile' = IF midWrite THEN FileOf(storeCall.data, FALSE) ELSE tempFile
    /\ pc' = "idle"
    /\ outcome' = Crashed
    /\ UNCHANGED <<event, storeCall, storeCalls>>
    /\ UNCHANGED <<inflight, response, requests>>
    /\ UNCHANGED engineVars

NextStore ==
    \/ \E data \in SaveInputs : CallSaveEvent(data)
    \/ \E patch \in Patches : CallUpdateEvent(patch)
    \/ \E written \in {"all", "part", "none"} : WriteTemp(written)
    \/ \E succeeds \in BOOLEAN : Rename(succeeds)
    \/ \E succeeds \in BOOLEAN : Unlink(succeeds)
    \/ \E succeeds \in BOOLEAN : RenameAgain(succeeds)
    \/ \E succeeds \in BOOLEAN : Cleanup(succeeds)
    \/ \E midWrite \in BOOLEAN : Crash(midWrite)

SpecStore == InitStore /\ [][NextStore]_vars

(***************************************************************************)
(* The leaderboards: GET /api/score/leaderboard                            *)
(* (src/app/api/auth/validate/route.ts) for a judge and                    *)
(* GET /api/admin/results (withAdminAuth) for the admin.  Both read the    *)
(* stored event and write nothing.                                         *)
(***************************************************************************)

\* Faulty variant of JudgeScores: the scores of every judge for the category
JudgeScoresOfEveryJudge(stored, role, categoryId) ==
    SelectSeq(stored, LAMBDA s : s.categoryId = categoryId)

\* scores.filter(s => s.judgeRole === role && s.categoryId === category.id)
JudgeScores(stored, role, categoryId) ==
    SelectSeq(stored, LAMBDA s : s.judgeRole = role /\ s.categoryId = categoryId)

Board(categoryId, categoryName, run, leaderboard) ==
    [categoryId |-> categoryId, categoryName |-> categoryName, run |-> run,
     leaderboard |-> leaderboard]

\* The answer of GET /api/score/leaderboard to the judge `role`
JudgeLeaderboard(ev, role, category) ==
    IF ev = NoEvent THEN Board(NullId, NullId, 1, <<>>)
    ELSE IF Falsy(ev.liveState.activeCategoryId) \/ category = NoCategory
    THEN Board(NullId, NullId, ev.liveState.activeRun, <<>>)
    ELSE Board(category.id, category.name, ev.liveState.activeRun,
               rankAthletes(JudgeScores(ev.scores, role, category.id),
                            <<category>>, category.athletes))

\* GET /api/score/leaderboard?key=
GetLeaderboard(ev, key) ==
    LET role == validateJudgeKey(ev, key)
    IN  IF role = NoRole
        THEN Response("GET /api/score/leaderboard", 401, NoBody)
        ELSE Response("GET /api/score/leaderboard", 200,
                      JudgeLeaderboard(ev, role,
                          IF ev = NoEvent THEN NoCategory
                          ELSE FindCategory(ev.categories,
                                            ev.liveState.activeCategoryId)))

CategorySummaries(cats) ==
    [i \in 1..Len(cats) |->
        [id |-> cats[i].id, name |-> cats[i].name,
         athleteCount |-> Len(cats[i].athletes)]]

\* The handler of GET /api/admin/results on the event withAdminAuth loaded;
\* a missing query parameter is the empty string
Results(ev, categoryId, judge, category) ==
    IF categoryId = ""
    THEN Response("GET /api/admin/results", 200,
                  [categories |-> CategorySummaries(ev.categories),
                   leaderboard |-> NullResult, judge |-> NullId])
    ELSE IF category = NoCategory
    THEN Response("GET /api/admin/results", 404, NoBody)
    ELSE IF judge # "" /\ ~Includes(JUDGE_ROLES, judge)
    THEN Response("GET /api/admin/results", 400, NoBody)
    ELSE Response("GET /api/admin/results", 200,
                  [categories |-> CategorySummaries(ev.categories),
                   leaderboard |->
                       rankAthletes(IF judge # ""
                                    THEN JudgeScores(ev.scores, judge, category.id)
                                    ELSE ev.scores,
                                    <<category>>, category.athletes),
                   judge |-> IF judge # "" THEN judge ELSE NullId])

\* withAdminAuth(handler): GET /api/admin/results?key=&categoryId=&judge=
GetResults(ev, key, categoryId, judge) ==
    IF ~validateAdminKey(ev, key)
    THEN Response("GET /api/admin/results", 401, NoBody)
    ELSE IF ev = NoEvent
    THEN Response("GET /api/admin/results", 404, NoBody)
    ELSE Results(ev, categoryId, judge, FindCategory(ev.categories, categoryId))

\* What the judges have submitted when a leaderboard is asked for: J1 and J2
\* disagree on the order of bibs 1 and 2 in c1, and J1 has a score in c2
LeaderboardSlots ==
    << Score("J1", "c1", 1, 1, Undefined, 95),
       Score("J1", "c1", 2, 1, Undefined, 60),
       Score("J2", "c1", 1, 1, Undefined, 60),
       Score("J2", "c1", 2, 1, Undefined, 95),
       Score("J1", "c2", 1, 1, Undefined, 60) >>

LeaderboardScores ==
    {FromSlots(LeaderboardSlots, chosen,
               [i \in 1..Len(LeaderboardSlots) |-> LeaderboardSlots[i].value], 1) :
        chosen \in SUBSET (1..Len(LeaderboardSlots))}

\* Events with two categories that have athletes, some of the submissions
\* and no active category, c1 or c2
LeaderboardEvents ==
    {[InitialEvent EXCEPT !.categories[2].athletes = <<Athlete(1)>>,
                          !.liveState.activeCategoryId = active,
                          !.scores = ss] :
        active \in {NullId, "c1", "c2"}, ss \in LeaderboardScores}

ResultsKeys == {"kA", "kX"}
ResultsCategoryIds == {"", "c1", "cX"}
ResultsJudges == {"", "J1", "J2", "J9"}

InitLeaderboard ==
    /\ event \in LeaderboardEvents
    /\ inflight = <<>>
    /\ response = NoResponse
    /\ requests = 0
    /\ StoreIdle
    /\ scores = <<>>
    /\ categories = <<>>
    /\ athletes = <<>>
    /\ call = NoCall
    /\ ret = NullResult

\* A judge asks for their leaderboard
GetJudgeLeaderboard(key) ==
    /\ requests < MaxRequests
    /\ requests' = requests + 1
    /\ call' = [fn |-> "GET /api/score/leaderboard", key |-> key,
                role |-> validateJudgeKey(event, key)]
    /\ response' = GetLeaderboard(event, key)
    /\ UNCHANGED <<event, inflight, scores, categories, athletes, ret>>
    /\ UNCHANGED storeVars

\* The admin asks for the results of a category, of all judges or of one
GetAdminResults(key, categoryId, judge) ==
    /\ requests < MaxRequests
    /\ requests' = requests + 1
    /\ call' = [fn |-> "GET /api/admin/results", key |-> key,
                categoryId |-> categoryId, judge |-> judge]
    /\ response' = GetResults(event, key, categoryId, judge)
    /\ UNCHANGED <<event, inflight, scores, categories, athletes, ret>>
    /\ UNCHANGED storeVars

NextLeaderboard ==
    \/ \E key \in Keys : GetJudgeLeaderboard(key)
    \/ \E key \in ResultsKeys, categoryId \in ResultsCategoryIds,
          judge \in ResultsJudges : GetAdminResults(key, categoryId, judge)

SpecLeaderboard == InitLeaderboard /\ [][NextLeaderboard]_vars

(***************************************************************************)
(* Roster management: POST and DELETE                                      *)
(* /api/admin/categories/[categoryId]/athletes and POST .../athletes/import *)
(* (src/app/api/admin/categories/[categoryId]/athletes).  The two POST      *)
(* handlers load the event, await the body and write the category list     *)
(* they loaded with one roster replaced; DELETE has no body to wait for.   *)
(***************************************************************************)

\* roster.sort((a, b) => a.bib - b.bib): stable, ascending
RECURSIVE SortByBib(_)
SortByBib(roster) ==
    IF roster = <<>> THEN <<>>
    ELSE LET first == CHOOSE i \in 1..Len(roster) :
                          /\ \A j \in 1..Len(roster) : roster[i].bib <= roster[j].bib
                          /\ \A j \in 1..(i - 1) : roster[j].bib # roster[i].bib
         IN  <<roster[first]>> \o SortByBib(RemoveAt(roster, first))

HasBib(roster, bib) == \E i \in 1..Len(roster) : roster[i].bib = bib

\* updatedCategories: the loaded category list with one roster replaced
WithRoster(ev, categoryId, roster) ==
    [categories |->
        [i \in 1..Len(ev.categories) |->
            IF i = CHOOSE k \in 1..Len(ev.categories) :
                       /\ ev.categories[k].id = categoryId
                       /\ \A j \in 1..(k - 1) : ev.categories[j].id # categoryId
            THEN [ev.categories[i] EXCEPT !.athletes = roster]
            ELSE ev.categories[i]]]

\* POST athletes from the body on, on the event and category the handler
\* loaded: the status and, on 201, the roster it writes
AddAthlete(loaded, body) ==
    IF body.bib = Undefined \/ body.bib <= 0 THEN [status |-> 400]
    ELSE IF body.name = "" THEN [status |-> 400]
    ELSE IF HasBib(loaded, body.bib) THEN [status |-> 409]
    ELSE [status |-> 201, athletes |-> SortByBib(Append(loaded, body))]

\* Number(bibRaw) of a CSV field
NumberOf(raw) ==
    CASE raw = "0" -> 0 [] raw = "1" -> 1 [] raw = "2" -> 2 [] OTHER -> NaN

\* parseCsv(raw).  The text is the sequence of its lines, a line the
\* sequence of its trimmed fields around the first comma: <<>> is a blank
\* line, <<f>> a line without a comma.  Returns the rows that parse and the
\* numbers of the lines that do not.
RECURSIVE parseCsv(_, _, _, _)
parseCsv(lines, i, parsed, errors) ==
    IF i > Len(lines) THEN [athletes |-> parsed, errors |-> errors]
    ELSE IF lines[i] = <<>> THEN parseCsv(lines, i + 1, parsed, errors)
    ELSE IF /\ i = 1 \/ (parsed = <<>> /\ errors = <<>>)
            /\ lines[i][1] \in {"bib", "startnummer", "#"}
    THEN parseCsv(lines, i + 1, parsed, errors)
    ELSE IF \/ Len(lines[i]) < 2
            \/ NumberOf(lines[i][1]) <= 0
            \/ lines[i][2] = ""
    THEN parseCsv(lines, i + 1, parsed, Append(errors, i))
    ELSE parseCsv(lines, i + 1,
                  Append(parsed, [bib |-> NumberOf(lines[i][1]), name |-> lines[i][2],
                                  line |-> i]),
                  errors)

\* The loop over the parsed rows: the first row of each bib goes to `unique`,
\* a later one to csvDupes
RECURSIVE KeepFirst(_, _, _, _)
KeepFirst(parsed, i, unique, csvDupes) ==
    IF i > Len(parsed) THEN [unique |-> unique, csvDupes |-> csvDupes]
    ELSE IF HasBib(unique, parsed[i].bib)
    THEN KeepFirst(parsed, i + 1, unique, Append(csvDupes, parsed[i].line))
    ELSE KeepFirst(parsed, i + 1,
                   Append(unique, [bib |-> parsed[i].bib, name |-> parsed[i].name]),
                   csvDupes)

\* POST athletes/import from the body on, on the roster the handler loaded
ImportAthletes(loaded, csv, rows) ==
    LET added   == SelectSeq(rows.unique, LAMBDA a : ~HasBib(loaded, a.bib))
        skipped == SelectSeq(rows.unique, LAMBDA a : HasBib(loaded, a.bib))
    IN  IF \A i \in 1..Len(csv) : csv[i] = <<>> THEN [status |-> 400]
        ELSE IF added = <<>> /\ skipped = <<>>
                /\ parseCsv(csv, 1, <<>>, <<>>).errors \o rows.csvDupes = <<>>
        THEN [status |-> 400]
        ELSE [status |-> 200,
              added |-> Len(added),
              skipped |-> [i \in 1..Len(skipped) |-> skipped[i].bib],
              errors |-> parseCsv(csv, 1, <<>>, <<>>).errors \o rows.csvDupes,
              athletes |-> IF added = <<>> THEN loaded
                           ELSE SortByBib(loaded \o added)]

\* The bodies of POST athletes: bib missing, zero or positive, name empty or
\* not
AthleteBodies ==
    {[bib |-> bib, name |-> name] : bib \in {Undefined, 0, 1, 2},
                                    name \in {"", "Alice", "Zoe"}}

\* The CSV texts of an import: empty, a header only, a header and a row, a
\* bib twice, rows out of order, rows that do not parse, a blank line
CsvBodies ==
    { <<>>,
      << <<"bib", "name">> >>,
      << <<"bib", "name">>, <<"1", "Alice">> >>,
      << <<"1", "Alice">>, <<"1", "Zoe">> >>,
      << <<"2", "Bob">>, <<"1", "Zoe">> >>,
      << <<"0", "Bob">>, <<"x", "Bob">>, <<"2">>, <<"2", "">> >>,
      << <<>>, <<"2", "Zoe">> >> }

\* The event after create-event and the creation of c1 and c2, c1 with no
\* athlete or with bib 2
InitRoster ==
    /\ event \in {[InitialEvent EXCEPT !.categories[1].athletes = roster] :
                     roster \in {<<>>, <<Athlete(2)>>}}
    /\ inflight = <<>>
    /\ response = NoResponse
    /\ requests = 0
    /\ StoreIdle
    /\ scores = <<>>
    /\ categories = <<>>
    /\ athletes = <<>>
    /\ call = NoCall
    /\ ret = NullResult

\* POST athletes and POST athletes/import up to `await request.json()`
BeginPostAthletes(route, key, categoryId) ==
    /\ requests < MaxRequests
    /\ requests' = requests + 1
    /\ IF ~validateAdminKey(event, key)
       THEN /\ response' = Response(route, 401, NoBody)
            /\ UNCHANGED inflight
       ELSE IF event = NoEvent \/ FindCategory(event.categories, categoryId) = NoCategory
       THEN /\ response' = Response(route, 404, NoBody)
            /\ UNCHANGED inflight
       ELSE /\ Len(inflight) < MaxInFlight
            /\ inflight' = Append(inflight,
                               [route |-> route, role |-> "admin", event |-> event,
                                categoryId |-> categoryId])
            /\ UNCHANGED response
    /\ UNCHANGED event
    /\ UNCHANGED engineVars
    /\ UNCHANGED storeVars

\* The handler calls updateEvent: an athlete was added (201), or an import
\* added at least one
Writes(out) == out.status = 201 \/ (out.status = 200 /\ out.added > 0)

\* A POST handler answers with `out`, after writing the roster out.athletes
\* into the category list it loaded
FinishPostAthletes(i, out) ==
    /\ IF ~Writes(out)
       THEN /\ response' = Response(inflight[i].route, out.status, out)
            /\ UNCHANGED event
       ELSE IF event = NoEvent
       THEN /\ response' = Response(inflight[i].route, 500, out)
            /\ UNCHANGED event
       ELSE /\ event' = updateEvent(event, WithRoster(inflight[i].event,
                                                      inflight[i].categoryId,
                                                      out.athletes))
            /\ response' = Response(inflight[i].route, out.status, out)
    /\ inflight' = RemoveAt(inflight, i)
    /\ UNCHANGED requests
    /\ UNCHANGED engineVars
    /\ UNCHANGED storeVars

\* The roster of the category the handler in flight was called for, as the
\* handler loaded it
Loaded(i) ==
    FindCategory(inflight[i].event.categories, inflight[i].categoryId).athletes

\* POST athletes from the body on
FinishAddAthlete(i, body) ==
    /\ inflight[i].route = "POST athletes"
    /\ FinishPostAthletes(i, AddAthlete(Loaded(i), body))

\* POST athletes/import from the body on
FinishImportAthletes(i, csv) ==
    /\ inflight[i].route = "POST athletes/import"
    /\ FinishPostAthletes(i,
           ImportAthletes(Loaded(i), csv,
                          KeepFirst(parseCsv(csv, 1, <<>>, <<>>).athletes, 1, <<>>, <<>>)))

\* DELETE athletes?key=&bib=: the whole handler; a missing or malformed bib
\* parameter is NaN
DeleteAthlete(key, categoryId, bib) ==
    /\ requests < MaxRequests
    /\ requests' = requests + 1
    /\ IF ~validateAdminKey(event, key)
       THEN /\ response' = Response("DELETE athletes", 401, NoBody)
            /\ UNCHANGED event
       ELSE IF event = NoEvent \/ FindCategory(event.categories, categoryId) = NoCategory
       THEN /\ response' = Response("DELETE athletes", 404, NoBody)
            /\ UNCHANGED event
       ELSE IF bib <= 0
       THEN /\ response' = Response("DELETE athletes", 400, NoBody)
            /\ UNCHANGED event
       ELSE IF ~HasBib(FindCategory(event.categories, categoryId).athletes, bib)
       THEN /\ response' = Response("DELETE athletes", 404, NoBody)
            /\ UNCHANGED event
       ELSE /\ event' = updateEvent(event,
                            WithRoster(event, categoryId,
                                SelectSeq(FindCategory(event.categories, categoryId).athletes,
                                          LAMBDA a : a.bib # bib)))
            /\ response' = Response("DELETE athletes", 200, NoBody)
    /\ UNCHANGED inflight
    /\ UNCHANGED engineVars
    /\ UNCHANGED storeVars

NextRoster ==
    \/ \E route \in {"POST athletes", "POST athletes/import"},
          key \in {"kA", "kX"}, categoryId \in {"c1", "c2", "cX"} :
           BeginPostAthletes(route, key, categoryId)
    \/ \E i \in 1..Len(inflight), body \in AthleteBodies : FinishAddAthlete(i, body)
    \/ \E i \in 1..Len(inflight), csv \in CsvBodies : FinishImportAthletes(i, csv)
    \/ \E key \in {"kA", "kX"}, categoryId \in {"c1", "c2", "cX"}, bib \in {NaN, 1, 2} :
           DeleteAthlete(key, categoryId, bib)

SpecRoster == InitRoster /\ [][NextRoster]_vars

(***************************************************************************)
(* Event administration: POST /api/admin/create-event                      *)
(* (src/app/api/admin/create-event/route.ts) and the JSON backup,          *)
(* GET and POST /api/export/json (src/app/api/export/json/route.ts).  Both *)
(* POST handlers load the event, await the body and call saveEvent.        *)
(***************************************************************************)

\* The event create-event builds.  crypto.randomUUID() and generateKey() give
\* values no earlier event has: those of the first or of the second draw.
NewEvent(name, draw) ==
    [id |-> IF draw = 1 THEN "e1" ELSE "e2",
     name |-> name,
     createdAt |-> "2026-01-01T00:00:00.000Z",
     adminKey |-> IF draw = 1 THEN "kA" ELSE "kB",
     judgeKeys |-> IF draw = 1 THEN [J1 |-> "k1", J2 |-> "k2", J3 |-> "k3"]
                   ELSE [J1 |-> "j1", J2 |-> "j2", J3 |-> "j3"],
     categories |-> <<>>,
     liveState |-> [activeCategoryId |-> NullId, activeRun |-> 1,
                    activeAthleteIndex |-> 0, activeAttemptNumber |-> 1],
     scores |-> <<>>,
     lockedRuns |-> <<>>]

\* POST create-event from the body on; `existing` is what loadEvent returned
\* before the body arrived.  A body is a record of the fields it carries.
CreateEvent(existing, body, draw) ==
    IF "name" \notin DOMAIN body \/ body.name = "" THEN [status |-> 400]
    ELSE IF existing # NoEvent /\ ~("confirm" \in DOMAIN body /\ body.confirm = TRUE)
    THEN [status |-> 409]
    ELSE [status |-> 201, event |-> NewEvent(body.name, draw)]

\* GET /api/export/json: JSON.stringify({...event, adminKey: undefined,
\* judgeKeys: undefined}) writes no key field
Exported(ev) == [f \in DOMAIN ev \ {"adminKey", "judgeKeys"} |-> ev[f]]

\* A request body that is valid JSON and no object
NotAnObject == [notAnObject |-> TRUE]

\* merged: the body with the current keys and the defaults of the optional
\* fields
Merged(currentEvent, raw) ==
    Spread(raw,
           [adminKey |-> currentEvent.adminKey,
            judgeKeys |-> currentEvent.judgeKeys,
            categories |-> IF "categories" \in DOMAIN raw THEN raw.categories ELSE <<>>,
            scores |-> IF "scores" \in DOMAIN raw THEN raw.scores ELSE <<>>,
            lockedRuns |-> IF "lockedRuns" \in DOMAIN raw THEN raw.lockedRuns ELSE <<>>,
            liveState |-> IF "liveState" \in DOMAIN raw THEN raw.liveState
                          ELSE [activeCategoryId |-> NullId, activeRun |-> 1,
                                activeAthleteIndex |-> 0, activeAttemptNumber |-> 1]])

\* The detailed validation of an import: which of its checks fail
ImportErrors(merged) ==
    {"scores" : i \in {i \in 1..Len(merged.scores) :
                          \/ ~Includes(JUDGE_ROLES, merged.scores[i].judgeRole)
                          \/ ~ValidValue(merged.scores[i].value)
                          \/ merged.scores[i].run \notin {1, 2}
                          \/ merged.scores[i].attempt < 1}}
      \cup {"category ids" : i \in {i \in 1..Len(merged.categories) :
                                \E j \in 1..(i - 1) :
                                    merged.categories[j].id = merged.categories[i].id}}
      \cup {"bibs" : i \in {i \in 1..Len(merged.categories) :
                        \E j, k \in 1..Len(merged.categories[i].athletes) :
                            /\ j < k
                            /\ merged.categories[i].athletes[j].bib
                                 = merged.categories[i].athletes[k].bib}}
      \cup {"references" : i \in {i \in 1..Len(merged.scores) :
                              \/ FindCategory(merged.categories,
                                              merged.scores[i].categoryId) = NoCategory
                              \/ ~\E a \in 1..Len(FindCategory(merged.categories,
                                             merged.scores[i].categoryId).athletes) :
                                     FindCategory(merged.categories,
                                         merged.scores[i].categoryId).athletes[a].bib
                                       = merged.scores[i].athleteBib}}

\* The summary an accepted import answers with
Summary(merged) ==
    [name |-> merged.name,
     categories |-> Len(merged.categories),
     athletes |-> SumSeq([i \in 1..Len(merged.categories) |->
                             Len(merged.categories[i].athletes)]),
     scores |-> Len(merged.scores)]

\* POST /api/export/json from the body on
ImportJson(currentEvent, body) ==
    IF body = NotAnObject THEN [status |-> 400]
    ELSE IF ~isEventData(Merged(currentEvent, body)) THEN [status |-> 422]
    ELSE IF ImportErrors(Merged(currentEvent, body)) # {} THEN [status |-> 422]
    ELSE [status |-> 200, event |-> Merged(currentEvent, body)]

\* The event with a category made active, a score of J1 as POST /api/score
\* stores it and the run locked
ScoredEvent ==
    [InitialEvent EXCEPT
        !.liveState.activeCategoryId = "c1",
        !.scores = << NewScore("J1", [activeCategoryId |-> "c1", activeRun |-> 1],
                               Athlete(1), 60) >>,
        !.lockedRuns = << LockKey("c1", 1) >>]

\* The bodies of create-event: with and without a name, with and without
\* confirm
CreateBodies ==
    {EmptyBody, [name |-> ""], [name |-> "Cup"], [confirm |-> TRUE],
     [name |-> "Cup", confirm |-> TRUE], [name |-> "Cup", confirm |-> FALSE]}

\* The bodies of an import: no object; an export of an event; an export
\* to which keys were added; the required fields alone; no id; a score with
\* an attempt number; a score of no judge; a bib twice
ImportBodies ==
    {NotAnObject,
     Exported(InitialEvent),
     Exported(ScoredEvent),
     Spread(Exported(InitialEvent),
            [adminKey |-> "kX", judgeKeys |-> [J1 |-> "x1", J2 |-> "x2", J3 |-> "x3"]]),
     [id |-> "e9", name |-> "Backup", createdAt |-> "2025-01-01T00:00:00.000Z"],
     [name |-> "Backup", createdAt |-> "2025-01-01T00:00:00.000Z"],
     Exported([ScoredEvent EXCEPT !.scores[1].attempt = 1]),
     Exported([ScoredEvent EXCEPT !.scores[1].attempt = 1, !.scores[1].judgeRole = "J9"]),
     Exported([InitialEvent EXCEPT !.categories[1].athletes = <<Athlete(1), Athlete(1)>>])}

\* No event yet, or an event that is set up, or one that is running
InitAdmin ==
    /\ event \in {NoEvent, InitialEvent, ScoredEvent}
    /\ inflight = <<>>
    /\ response = NoResponse
    /\ requests = 0
    /\ StoreIdle
    /\ scores = <<>>
    /\ categories = <<>>
    /\ athletes = <<>>
    /\ call = NoCall
    /\ ret = NullResult

\* POST create-event up to `await request.json()`
BeginCreateEvent(key) ==
    /\ requests < MaxRequests
    /\ requests' = requests + 1
    /\ IF event # NoEvent /\ ~validateAdminKey(event, key)
       THEN /\ response' = Response("POST /api/admin/create-event", 401, NoBody)
            /\ UNCHANGED inflight
       ELSE /\ Len(inflight) < MaxInFlight
            /\ inflight' = Append(inflight,
                               [route |-> "POST /api/admin/create-event",
                                role |-> "admin", event |-> event, key |-> key])
            /\ UNCHANGED response
    /\ UNCHANGED event
    /\ UNCHANGED engineVars
    /\ UNCHANGED storeVars

\* A handler in flight answers with `out` and, when out.status is the
\* status of success, saves out.event and sends `body`
FinishSaving(i, out, success, body) ==
    /\ response' = Response(inflight[i].route, out.status,
                            IF out.status = success THEN body ELSE NoBody)
    /\ event' = IF out.status = success THEN out.event ELSE event
    /\ inflight' = RemoveAt(inflight, i)
    /\ UNCHANGED requests
    /\ UNCHANGED engineVars
    /\ UNCHANGED storeVars

\* POST create-event from the body on
FinishCreateEvent(i, body, draw) ==
    /\ inflight[i].route = "POST /api/admin/create-event"
    /\ event # NoEvent => NewEvent("Cup", draw).adminKey # event.adminKey
    /\ FinishSaving(i, CreateEvent(inflight[i].event, body, draw), 201,
                    NewEvent(body.name, draw))

\* GET /api/export/json?key=
GetExport(key) ==
    /\ requests < MaxRequests
    /\ requests' = requests + 1
    /\ response' = IF ~validateAdminKey(event, key)
                   THEN Response("GET /api/export/json", 401, NoBody)
                   ELSE IF event = NoEvent
                   THEN Response("GET /api/export/json", 404, NoBody)
                   ELSE Response("GET /api/export/json", 200, Exported(event))
    /\ UNCHANGED <<event, inflight>>
    /\ UNCHANGED engineVars
    /\ UNCHANGED storeVars

\* POST /api/export/json up to `await request.json()`
BeginImportJson(key) ==
    /\ requests < MaxRequests
    /\ requests' = requests + 1
    /\ IF ~validateAdminKey(event, key)
       THEN /\ response' = Response("POST /api/export/json", 401, NoBody)
            /\ UNCHANGED inflight
       ELSE IF event = NoEvent
       THEN /\ response' = Response("POST /api/export/json", 404, NoBody)
            /\ UNCHANGED inflight
       ELSE /\ Len(inflight) < MaxInFlight
            /\ inflight' = Append(inflight,
                               [route |-> "POST /api/export/json",
                                role |-> "admin", event |-> event, key |-> key])
            /\ UNCHANGED response
    /\ UNCHANGED event
    /\ UNCHANGED engineVars
    /\ UNCHANGED storeVars

\* POST /api/export/json from the body on
FinishImportJson(i, body) ==
    /\ inflight[i].route = "POST /api/export/json"
    /\ FinishSaving(i, ImportJson(inflight[i].event, body), 200,
                    Summary(Merged(inflight[i].event, body)))

NextAdmin ==
    \/ \E key \in {"", "kA", "kB", "kX"} : BeginCreateEvent(key)
    \/ \E i \in 1..Len(inflight), body \in CreateBodies, draw \in {1, 2} :
           FinishCreateEvent(i, body, draw)
    \/ \E key \in {"kA", "kB", "kX"} : GetExport(key)
    \/ \E key \in {"kA", "kB", "kX"} : BeginImportJson(key)
    \/ \E i \in 1..Len(inflight) :
           \E body \in ImportBodies \cup (IF event = NoEvent THEN {}
                                          ELSE {Exported(event)}) :
               FinishImportJson(i, body)

SpecAdmin == InitAdmin /\ [][NextAdmin]_vars

-----------------------------------------------------------------------------
(* Properties of computeRunScore (SpecRun).  They are stated on the score   *)
(* list itself: which entries match the call, which attempts they belong    *)
(* to, which judges scored an attempt.                                      *)

Judges == {JUDGE_ROLES[i] : i \in 1..Len(JUDGE_ROLES)}

RunCalled == call.fn = "computeRunScore"

\* The places of the score list that match the called (category, athlete, run)
Matching ==
    {i \in 1..Len(scores) : /\ scores[i].categoryId = call.categoryId
                            /\ scores[i].athleteBib = call.athleteBib
                            /\ scores[i].run = call.run}

AttemptsSeen == {scores[i].attempt : i \in Matching}

\* The places holding the scores of attempt a
InAttempt(a) == {i \in Matching : scores[i].attempt = a}

Scored(a, j) == \E i \in InAttempt(a) : scores[i].judgeRole = j

IsComplete(a) == \A j \in Judges : Scored(a, j)

\* Where attempt a is first seen in the list
FirstSeen(a) == CHOOSE i \in InAttempt(a) : \A k \in InAttempt(a) : i <= k

RECURSIVE SumAt(_)
SumAt(I) == IF I = {} THEN 0
            ELSE LET i == CHOOSE x \in I : TRUE IN scores[i].value + SumAt(I \ {i})

\* The mean of attempt a's values, rounded to hundredths
MeanOf(a) == RoundToHundredths(SumAt(InAttempt(a)), Cardinality(InAttempt(a)))

\* C2: whenever some attempt of the called run is complete, computeRunScore
\* returns a complete attempt, whatever the averages and the order of the
\* attempts in the list.
C2_CompleteAttemptSelected ==
    (RunCalled /\ \E a \in AttemptsSeen : IsComplete(a))
        => /\ ret # NullResult
           /\ ret.complete
           /\ ret.attempt \in AttemptsSeen
           /\ IsComplete(ret.attempt)

\* C2 witness: a complete attempt was returned although an incomplete attempt
\* with a strictly higher average comes first in the list.
C2_Witness ==
    /\ RunCalled
    /\ ret # NullResult
    /\ ret.complete
    /\ \E b \in AttemptsSeen : /\ ~IsComplete(b)
                               /\ MeanOf(b) > ret.average
                               /\ FirstSeen(b) < FirstSeen(ret.attempt)

\* C3: no attempt with the completeness of the returned one has a strictly
\* higher average, and an attempt that ties with it on completeness and
\* average is first seen later in the list.
C3_MaxAverageFirstSeen ==
    (RunCalled /\ ret # NullResult)
        => /\ ret.attempt \in AttemptsSeen
           /\ ret.average = MeanOf(ret.attempt)
           /\ \A a \in AttemptsSeen :
                (IsComplete(a) <=> ret.complete)
                    => /\ MeanOf(a) <= ret.average
                       /\ (MeanOf(a) = ret.average /\ a # ret.attempt)
                              => FirstSeen(ret.attempt) < FirstSeen(a)

\* C3 witness: two attempts tie on completeness and average, and the one
\* returned is the one seen first, which is not the lower attempt number.
C3_Witness ==
    /\ RunCalled
    /\ ret # NullResult
    /\ \E a \in AttemptsSeen : /\ a < ret.attempt
                               /\ (IsComplete(a) <=> ret.complete)
                               /\ MeanOf(a) = ret.average
                               /\ FirstSeen(ret.attempt) < FirstSeen(a)

\* C6: a present average is the mean of exactly the values of the returned
\* attempt, rounded half up to hundredths: it lies within half a hundredth
\* of the exact mean, the upper half excluded.
C6_AverageIsRoundedMean ==
    (RunCalled /\ ret # NullResult /\ ret.average # Null)
        => LET I == InAttempt(ret.attempt)
               n == Cardinality(I)
           IN  /\ n > 0
               /\ 2 * n * ret.average - n <= 200 * SumAt(I)
               /\ 200 * SumAt(I) < 2 * n * ret.average + n

\* C6 witness: the returned average is not a whole number (71.67 from 60, 60
\* and 95) while another attempt and another run hold other values.
C6_Witness ==
    /\ RunCalled
    /\ ret # NullResult
    /\ ret.average = 7167
    /\ Cardinality(AttemptsSeen) > 1
    /\ Matching # 1..Len(scores)

\* C7: complete holds exactly when every judge role scored the returned
\* attempt; the map gives each judge's value, and Null, which is no value,
\* for a judge without one; one judge alone gives an incomplete result whose
\* average is that judge's value.
C7_CompleteFlagAndJudgeMap ==
    (RunCalled /\ ret # NullResult)
        => /\ ret.complete <=> IsComplete(ret.attempt)
           /\ DOMAIN ret.scores = Judges
           /\ \A j \in Judges :
                /\ Scored(ret.attempt, j)
                     => \E i \in InAttempt(ret.attempt) :
                           scores[i].judgeRole = j /\ ret.scores[j] = scores[i].value
                /\ ~Scored(ret.attempt, j) => ret.scores[j] = Null
           /\ Null \notin 0..100
           /\ \A i \in InAttempt(ret.attempt) :
                InAttempt(ret.attempt) = {i}
                    => ~ret.complete /\ ret.average = 100 * scores[i].value

\* C7 witness: a result from a single judge's submission
C7_Witness ==
    /\ RunCalled
    /\ ret # NullResult
    /\ Cardinality(InAttempt(ret.attempt)) = 1
    /\ ~ret.complete
    /\ ret.scores["J2"] = Null

\* C8: computeRunScore returns null exactly when no entry of the list matches
\* the called category, athlete and run.
C8_NullIffNoMatch ==
    RunCalled => (ret = NullResult <=> Matching = {})

\* C8 witness: null is returned although the list holds scores, all of them
\* of another category, athlete or run.
C8_Witness ==
    /\ RunCalled
    /\ ret = NullResult
    /\ \E i \in 1..Len(scores) : /\ scores[i].categoryId # call.categoryId
                                 /\ scores[i].athleteBib = call.athleteBib
                                 /\ scores[i].run = call.run
    /\ \E i \in 1..Len(scores) : /\ scores[i].categoryId = call.categoryId
                                 /\ scores[i].athleteBib # call.athleteBib
                                 /\ scores[i].run = call.run
    /\ \E i \in 1..Len(scores) : /\ scores[i].categoryId = call.categoryId
                                 /\ scores[i].athleteBib = call.athleteBib
                                 /\ scores[i].run # call.run

-----------------------------------------------------------------------------
(* Properties of computeFinalScore (SpecFinal) *)

FinalCalled == call.fn = "computeFinalScore"

\* The run score of the called athlete in the k-th supplied category
RunOf(k, run) == computeRunScore(scores, categories[k].id, call.athlete.bib, run)

\* C4: per category the best run is the only run with a result; of two, the
\* complete one when exactly one is complete; otherwise the one with the
\* higher average, run 1 on equal averages.  bestAverage, bestAttempt and
\* complete of the detail are those of the selected run.
C4_BestRunSelection ==
    FinalCalled =>
        /\ Len(ret.categoryScores) = Len(categories)
        /\ \A k \in 1..Len(categories) :
             LET d == ret.categoryScores[k]
                 r1 == RunOf(k, 1)
                 r2 == RunOf(k, 2)
                 sel == IF d.bestRun = 1 THEN r1 ELSE r2
             IN  /\ (r1 # NullResult /\ r2 = NullResult) => d.bestRun = 1
                 /\ (r1 = NullResult /\ r2 # NullResult) => d.bestRun = 2
                 /\ (r1 # NullResult /\ r2 # NullResult) =>
                      /\ (r1.complete /\ ~r2.complete) => d.bestRun = 1
                      /\ (r2.complete /\ ~r1.complete) => d.bestRun = 2
                      /\ (r1.complete <=> r2.complete) =>
                           /\ r1.average > r2.average => d.bestRun = 1
                           /\ r2.average > r1.average => d.bestRun = 2
                           /\ r1.average = r2.average => d.bestRun = 1
                 /\ (r1 # NullResult \/ r2 # NullResult) =>
                      /\ d.bestRun \in {1, 2}
                      /\ sel # NullResult
                      /\ d.bestAverage = sel.average
                      /\ d.bestAttempt = sel.attempt
                      /\ d.complete = sel.complete

\* C4 witness: run 2 is complete with the lower average, run 1 is not
\* complete, and run 2 was selected.
C4_Witness ==
    /\ FinalCalled
    /\ \E k \in 1..Len(categories) :
         /\ RunOf(k, 1) # NullResult
         /\ RunOf(k, 2) # NullResult
         /\ ~RunOf(k, 1).complete
         /\ RunOf(k, 2).complete
         /\ RunOf(k, 2).average < RunOf(k, 1).average
         /\ ret.categoryScores[k].bestRun = 2
         /\ ret.categoryScores[k].bestAverage = RunOf(k, 2).average

\* The sum of the best averages that are present
RECURSIVE SumOfBest(_, _)
SumOfBest(details, k) ==
    IF k > Len(details) THEN 0
    ELSE (IF details[k].bestAverage # Null THEN details[k].bestAverage ELSE 0)
             + SumOfBest(details, k + 1)

\* C5: the final total is the plain sum of the best-run averages of the
\* categories that have one (absent when none has), with no weight applied.
C5_TotalIsUnweightedSum ==
    FinalCalled =>
        ret.weightedTotal =
            IF \A k \in 1..Len(ret.categoryScores) : ret.categoryScores[k].bestAverage = Null
            THEN Null
            ELSE SumOfBest(ret.categoryScores, 1)

\* The called athlete has no submission in any supplied category
NoSubmissions ==
    \A i \in 1..Len(scores) :
        ~(/\ scores[i].athleteBib = call.athlete.bib
          /\ \E k \in 1..Len(categories) : categories[k].id = scores[i].categoryId)

\* C9: computeFinalScore returns a result with one detail per supplied
\* category in the supplied order; for an athlete without any submission the
\* total is absent, not zero, and complete is false.
C9_NoDataGivesAbsentTotal ==
    FinalCalled =>
        /\ ret.athleteBib = call.athlete.bib
        /\ Len(ret.categoryScores) = Len(categories)
        /\ \A k \in 1..Len(categories) : ret.categoryScores[k].categoryId = categories[k].id
        /\ NoSubmissions =>
             /\ ret.weightedTotal = Null
             /\ ret.weightedTotal # 0
             /\ ret.complete = FALSE
             /\ \A k \in 1..Len(categories) :
                  /\ ret.categoryScores[k].bestRun = Null
                  /\ ret.categoryScores[k].bestAverage = Null

\* C9 witness: two categories in the order c2, c1, scores of another athlete
\* only, and a result without a total.
C9_Witness ==
    /\ FinalCalled
    /\ NoSubmissions
    /\ Len(scores) > 0
    /\ Len(categories) = 2
    /\ categories[1].id = "c2"
    /\ ret.weightedTotal = Null
    /\ Len(ret.categoryScores) = 2

\* The best run of the k-th category exists and is complete
BestRunComplete(k) ==
    LET d == ret.categoryScores[k]
    IN  /\ d.bestRun \in {1, 2}
        /\ RunOf(k, d.bestRun) # NullResult
        /\ RunOf(k, d.bestRun).complete

\* C10: the overall complete flag holds exactly when there is at least one
\* category and the best run of every category exists and is complete.
C10_CompleteIffAllCategoriesComplete ==
    FinalCalled =>
        (ret.complete <=>
            /\ Len(categories) > 0
            /\ \A k \in 1..Len(categories) : BestRunComplete(k))

\* C10 witness: two categories, both with a complete best run, and a
\* complete result.
C10_Witness ==
    /\ FinalCalled
    /\ Len(categories) = 2
    /\ \A k \in 1..Len(categories) : BestRunComplete(k)
    /\ ret.complete

\* The called athlete has submissions for run 1 of the single supplied
\* category and none for run 2
OnlyRunOne ==
    /\ FinalCalled
    /\ Len(categories) = 1
    /\ RunOf(1, 1) # NullResult
    /\ RunOf(1, 2) = NullResult

\* C11: with one supplied category and submissions for run 1 only, the final
\* total equals the average of run 1, the best run is 1 and run2 of the
\* category detail is absent.
C11_RunOneOnlyTotal ==
    OnlyRunOne =>
        /\ ret.weightedTotal = RunOf(1, 1).average
        /\ ret.categoryScores[1].bestRun = 1
        /\ ret.categoryScores[1].run2 = NullResult

-----------------------------------------------------------------------------
(* Properties of rankAthletes (SpecRank) *)

RankCalled == call.fn = "rankAthletes"

\* a > b on totals; nothing is greater or smaller than NaN
Greater(a, b) == a # NaN /\ b # NaN /\ a > b

\* C1: the rank of an athlete with a total is 1 plus the number of athletes
\* whose total is strictly greater (standard competition ranking: 1, 1, 3).
C1_StandardCompetitionRanks ==
    RankCalled =>
        \A i \in 1..Len(ret) :
            ret[i].weightedTotal # Null =>
                ret[i].rank = 1 + Cardinality({j \in 1..Len(ret) :
                                      /\ ret[j].weightedTotal # Null
                                      /\ Greater(ret[j].weightedTotal, ret[i].weightedTotal)})

\* The places of the returned list with and without a total
ScoredPlaces == {i \in 1..Len(ret) : ret[i].weightedTotal # Null}

UnscoredPlaces == {i \in 1..Len(ret) : ret[i].weightedTotal = Null}

\* C12: every athlete without a total comes after every athlete with one,
\* and all of them have the rank (number of scored athletes + 1), which is 1
\* when nobody has a total.
C12_UnscoredShareLastRank ==
    RankCalled =>
        /\ \A i \in UnscoredPlaces : \A j \in ScoredPlaces : j < i
        /\ \A i \in UnscoredPlaces : ret[i].rank = Cardinality(ScoredPlaces) + 1

\* C12 witness: two scored athletes tie at rank 1 and the unscored athlete,
\* who was first in the roster, is last at rank 3.
C12_Witness ==
    /\ RankCalled
    /\ Len(ret) = 3
    /\ Cardinality(ScoredPlaces) = 2
    /\ ret[1].rank = 1
    /\ ret[2].rank = 1
    /\ ret[3].weightedTotal = Null
    /\ ret[3].rank = 3
    /\ athletes[1].bib = ret[3].athleteBib

\* C13: the returned list is ordered by rank ascending and, among equal
\* ranks, by bib ascending, for every order of the roster.
C13_OrderedByRankThenBib ==
    RankCalled =>
        \A i \in 1..Len(ret) : \A j \in 1..Len(ret) :
            i < j => \/ ret[i].rank < ret[j].rank
                     \/ /\ ret[i].rank = ret[j].rank
                        /\ ret[i].athleteBib < ret[j].athleteBib

\* C13 witness: two athletes share a rank and stand in bib order in the
\* result although the roster named them in the opposite order.
C13_Witness ==
    /\ RankCalled
    /\ \E i \in 1..Len(ret) : \E j \in 1..Len(ret) :
         /\ i < j
         /\ ret[i].rank = ret[j].rank
         /\ ret[i].weightedTotal # Null
         /\ ret[j].weightedTotal # Null
         /\ \E a \in 1..Len(athletes) : \E b \in 1..Len(athletes) :
              /\ a < b
              /\ athletes[a].bib = ret[j].athleteBib
              /\ athletes[b].bib = ret[i].athleteBib

\* C14: the result has exactly one entry per athlete of the roster, and
\* every rank lies between 1 and the number of athletes.
C14_OneEntryPerAthlete ==
    RankCalled =>
        /\ Len(ret) = Len(athletes)
        /\ \A a \in 1..Len(athletes) :
             Cardinality({i \in 1..Len(ret) : ret[i].athleteBib = athletes[a].bib}) = 1
        /\ \A i \in 1..Len(ret) : ret[i].rank \in 1..Len(athletes)

\* C14 witness: three athletes, two of them without a total, three entries
C14_Witness ==
    /\ RankCalled
    /\ Len(athletes) = 3
    /\ Len(ret) = 3
    /\ Cardinality(UnscoredPlaces) = 2
    /\ \A i \in 1..Len(ret) : ret[i].rank \in 1..2

-----------------------------------------------------------------------------
(* Properties of the engine as a whole (SpecEngine) *)

-----------------------------------------------------------------------------
(* Properties of the server (Spec) *)

\* This step answers a score submission, with the given status
Answered(status) ==
    /\ response'.route = "POST /api/score"
    /\ response'.status = status
    /\ \/ Len(inflight') < Len(inflight)
       \/ requests' # requests /\ inflight' = inflight

\* This step finishes a request whose handler loaded the event as it is
\* stored now: nothing was written in between
FinishesFresh ==
    \E i \in 1..Len(inflight) :
        /\ inflight' = RemoveAt(inflight, i)
        /\ inflight[i].event = event

\* Same judge, category, athlete and run
SameRun(a, b) ==
    /\ a.judgeRole = b.judgeRole
    /\ a.categoryId = b.categoryId
    /\ a.athleteBib = b.athleteBib
    /\ a.run = b.run

\* Same (judge, category, athlete, run, attempt) tuple
SameTuple(a, b) == SameRun(a, b) /\ AttemptOf(a) = AttemptOf(b)

AtMostOnePerTuple(stored) ==
    \A i \in 1..Len(stored) : \A j \in 1..Len(stored) :
        SameTuple(stored[i], stored[j]) => i = j

\* C16: the stored scores hold at most one submission per (judge, category,
\* athlete, run, attempt) tuple, and an accepted submission is afterwards
\* the stored submission of its tuple, with the value submitted.
C16_OneScorePerTuple ==
    /\ [](event # NoEvent => AtMostOnePerTuple(event.scores))
    /\ [][Answered(201) =>
            /\ Includes(event'.scores, response'.body)
            /\ \A i \in 1..Len(event'.scores) :
                 SameTuple(event'.scores[i], response'.body)
                     => event'.scores[i] = response'.body]_vars

\* C16 witness: a judge's stored score is the second value the judge
\* submitted for the tuple, next to a score of another judge.
C16_Witness ==
    /\ response.route = "POST /api/score"
    /\ response.status = 201
    /\ requests >= 3
    /\ Len(event.scores) = 2
    /\ event.scores[1].judgeRole # event.scores[2].judgeRole
    /\ SameRun(event.scores[1], [event.scores[2] EXCEPT !.judgeRole = event.scores[1].judgeRole])
    /\ event.scores[2] = response.body
    /\ event.scores[2].value = 95

\* C17: with a re-run triggered (the active attempt number is above 1), an
\* accepted score is stored under the active attempt number, and the
\* judge's score for the earlier attempt stays in the stored scores.
C17_RerunKeepsEarlierAttempt ==
    [][(Answered(201) /\ FinishesFresh /\ event.liveState.activeAttemptNumber > 1) =>
          /\ AttemptOf(response'.body) = event.liveState.activeAttemptNumber
          /\ \A i \in 1..Len(event.scores) :
               (/\ SameRun(event.scores[i], response'.body)
                /\ AttemptOf(event.scores[i]) < event.liveState.activeAttemptNumber)
                   => Includes(event'.scores, event.scores[i])]_vars

\* The lock key of the active category and run is in lockedRuns
ActiveRunLocked(ev) ==
    /\ ~Falsy(ev.liveState.activeCategoryId)
    /\ Includes(ev.lockedRuns,
                LockKey(ev.liveState.activeCategoryId, ev.liveState.activeRun))

\* This step answers a score submission
AnsweredScore == \E status \in {201, 400, 401, 404, 409, 423, 500} : Answered(status)

\* C18: while the active category and run are locked, a score submission
\* that is answered is rejected (423, or 400, 401, 409 from the checks
\* before the lock check) and the stored scores stay as they are; a score is
\* accepted only for a category and run whose lock key is not in lockedRuns.
C18_LockedRunRejects ==
    [][/\ (ActiveRunLocked(event) /\ AnsweredScore) =>
             /\ response'.status \in {400, 401, 409, 423}
             /\ event'.scores = event.scores
       /\ Answered(201) =>
             ~Includes(event.lockedRuns,
                       LockKey(response'.body.categoryId, response'.body.run))]_vars

\* C22: a stored score stays in the stored scores at every step, unless the
\* step accepts a submission of the same judge for the same tuple; and a lock
\* key stays in lockedRuns unless the step is an admin update of that
\* category and run.
C22_AcceptedScoresStay ==
    [][/\ \A i \in 1..Len(event.scores) :
            \/ Includes(event'.scores, event.scores[i])
            \/ Answered(201) /\ SameTuple(response'.body, event.scores[i])
       /\ \A i \in 1..Len(event.lockedRuns) :
            ~Includes(event'.lockedRuns, event.lockedRuns[i]) =>
                /\ response'.route = "PUT /api/admin/live"
                /\ response'.status = 200
                /\ event.lockedRuns[i] = LockKey(response'.body.activeCategoryId,
                                                 response'.body.activeRun)]_vars

\* The request changes the category or the run of the stored live state
ChangesCategoryOrRun(body) ==
    \/ Has(body, "activeCategoryId")
          /\ body.activeCategoryId # event.liveState.activeCategoryId
    \/ Has(body, "activeRun") /\ body.activeRun # event.liveState.activeRun

\* The attempt number the claim gives the stored live state after the request
AttemptAfter(body) ==
    (IF ChangesCategoryOrRun(body) THEN 1 ELSE event.liveState.activeAttemptNumber)
        + (IF Has(body, "rerun") /\ body.rerun = TRUE THEN 1 ELSE 0)

\* This step is the handler in flight at place i answering 200 to the PUT
\* /api/admin/live with this body
PutLiveAccepted(i, body) ==
    /\ inflight[i].route = "PUT /api/admin/live"
    /\ inflight' = RemoveAt(inflight, i)
    /\ response'.route = "PUT /api/admin/live"
    /\ response'.status = 200
    /\ PutLive(inflight[i].event, body).status = 200
    /\ event' = updateEvent(event, PutLive(inflight[i].event, body).patch)

\* C23: activeAttemptNumber is at least 1, and an accepted PUT
\* /api/admin/live leaves it at: 1 if the request changes the category or
\* the run, the stored number otherwise, plus 1 if the request has rerun
\* true.
C23_AttemptNumberRules ==
    /\ [](event # NoEvent => event.liveState.activeAttemptNumber >= 1)
    /\ [][(response'.status = 200 /\ Len(inflight') < Len(inflight)) =>
            \A i \in 1..Len(inflight) : \A body \in LiveBodies :
                PutLiveAccepted(i, body) =>
                    event'.liveState.activeAttemptNumber = AttemptAfter(body)]_vars

\* The roster of the stored active category, empty if there is none
ActiveRoster(ev) ==
    IF Falsy(ev.liveState.activeCategoryId) THEN <<>>
    ELSE IF FindCategory(ev.categories, ev.liveState.activeCategoryId) = NoCategory
    THEN <<>>
    ELSE FindCategory(ev.categories, ev.liveState.activeCategoryId).athletes

\* C24: an accepted score names the stored active category, the stored
\* active run and an athlete of that category's roster; with no active
\* category, an unknown one or an empty roster an answered submission is
\* rejected (409, or 400, 401 from the checks before) and the stored scores
\* stay as they are.
C24_AcceptedForActiveAthlete ==
    [][/\ Answered(201) =>
             /\ response'.body.categoryId = event.liveState.activeCategoryId
             /\ response'.body.run = event.liveState.activeRun
             /\ \E a \in 1..Len(ActiveRoster(event)) :
                    ActiveRoster(event)[a].bib = response'.body.athleteBib
       /\ (AnsweredScore /\ ActiveRoster(event) = <<>>) =>
             /\ response'.status \in {400, 401, 409}
             /\ event'.scores = event.scores]_vars

\* The stored scores of the judges other than role
OfOtherJudges(stored, role) == SelectSeq(stored, LAMBDA s : s.judgeRole # role)

\* This step is a submission with key k passing the key check
PassedKeyCheck(k) ==
    /\ validateJudgeKey(event, k) # NoRole
    /\ requests' = requests + 1
    /\ inflight' = Append(inflight, [route |-> "POST /api/score",
                                     role |-> validateJudgeKey(event, k),
                                     event |-> event])

\* This step is the handler in flight at place i answering 201 to the
\* submission of this value
PostScoreAccepted(i, value) ==
    /\ inflight[i].route = "POST /api/score"
    /\ inflight' = RemoveAt(inflight, i)
    /\ response'.route = "POST /api/score"
    /\ response'.status = 201
    /\ PostScore(inflight[i].event, inflight[i].role, value).status = 201
    /\ response'.body = PostScore(inflight[i].event, inflight[i].role, value).score

\* C25: validateJudgeKey(k) is R exactly when k is the stored key of R; a
\* submission passes the key check under the role of its key, an accepted
\* submission is stored under that role and leaves the stored scores of the
\* other roles as they are; a 401 changes nothing.
C25_OnlyOwnRoleWritten ==
    /\ [](event # NoEvent =>
            \A k \in Keys : \A r \in 1..Len(JUDGE_ROLES) :
                validateJudgeKey(event, k) = JUDGE_ROLES[r]
                    <=> k = event.judgeKeys[JUDGE_ROLES[r]])
    /\ [][/\ \A k \in Keys :
               PassedKeyCheck(k) =>
                   event.judgeKeys[inflight'[Len(inflight')].role] = k
          /\ \A i \in 1..Len(inflight) : \A value \in BodyValues :
               PostScoreAccepted(i, value) =>
                   /\ response'.body.judgeRole = inflight[i].role
                   /\ OfOtherJudges(event'.scores, inflight[i].role)
                        = OfOtherJudges(event.scores, inflight[i].role)
          /\ Answered(401) => event' = event]_vars

-----------------------------------------------------------------------------
(* Properties of the store (SpecStore) *)

\* C19: at every step of a save, and after a crash or a failing step, what
\* loadEvent returns is the event that was stored when the call began or the
\* event the call saves; in particular it returns an event whenever one was
\* stored when the call began.
C19_SaveIsAtomic ==
    storeCall.fn # "none" =>
        loadEvent(event) \in {storeCall.before, storeCall.data}

UpdateReturned == storeCall.fn = "updateEvent" /\ outcome.kind = "returned"

\* C20: when updateEvent(patch) returns, the stored event is the returned one,
\* its fields are those of the event stored before and of the patch, the
\* fields of the patch have the patch's values and every other field its
\* value of before; updateEvent with no stored event throws and data/event.json
\* still does not exist; saveEvent of a malformed object throws and the stored
\* event is the one of before.
C20_UpdateEventFrame ==
    /\ UpdateReturned =>
           /\ loadEvent(event) = outcome.value
           /\ DOMAIN outcome.value = DOMAIN storeCall.before \cup DOMAIN storeCall.patch
           /\ \A f \in DOMAIN storeCall.patch : outcome.value[f] = storeCall.patch[f]
           /\ \A f \in DOMAIN storeCall.before \ DOMAIN storeCall.patch :
                  outcome.value[f] = storeCall.before[f]
    /\ (storeCall.fn = "updateEvent" /\ storeCall.before = NoEvent) =>
           /\ outcome.kind = "threw"
           /\ pc = "idle"
           /\ event = NoEvent
    /\ (storeCall.fn = "saveEvent" /\ storeCall.data \in MalformedEvents) =>
           /\ outcome.kind = "threw"
           /\ pc = "idle"
           /\ event = storeCall.before

\* updateEvent returned after it replaced a field of a stored event that has
\* other fields
C20_Witness ==
    /\ UpdateReturned
    /\ storeCall.patch # NoPatch
    /\ outcome.value # storeCall.before
    /\ DOMAIN storeCall.before \ DOMAIN storeCall.patch # {}

-----------------------------------------------------------------------------
(* Properties of the engine on reordered submissions (SpecReorder) *)

\* Two attempts of the called category, athlete and run have the same
\* completeness and the same average
TiedAttempts(ss, categoryId, athleteBib, run) ==
    \E a, b \in {AttemptOf(s) : s \in {Relevant(ss, categoryId, athleteBib, run)[i] :
                     i \in 1..Len(Relevant(ss, categoryId, athleteBib, run))}} :
        /\ a # b
        /\ AttemptResult(a, AttemptScores(Relevant(ss, categoryId, athleteBib, run), a)).complete
             = AttemptResult(b, AttemptScores(Relevant(ss, categoryId, athleteBib, run), b)).complete
        /\ AttemptResult(a, AttemptScores(Relevant(ss, categoryId, athleteBib, run), a)).average
             = AttemptResult(b, AttemptScores(Relevant(ss, categoryId, athleteBib, run), b)).average

\* The run result `now` against the result `before` of the same call on
\* another order of the submissions
SameRunOutcome(before, now, tied) ==
    IF before = NullResult \/ now = NullResult THEN before = now
    ELSE /\ now.average = before.average
         /\ now.complete = before.complete
         /\ (now.attempt # before.attempt \/ now.scores # before.scores) => tied

SameRanking(before, now) ==
    /\ Len(now) = Len(before)
    /\ \A i \in 1..Len(now) :
         /\ now[i].athleteBib = before[i].athleteBib
         /\ now[i].rank = before[i].rank
         /\ now[i].weightedTotal = before[i].weightedTotal
         /\ now[i].complete = before[i].complete

\* C30: with one submission per (judge, category, athlete, run, attempt),
\* what an engine function returned on one order of the submissions agrees
\* with what it returns on every other order: computeRunScore in average and
\* complete flag (attempt number and judge map differ only when two attempts
\* tie on both), computeFinalScore in total and complete flag, rankAthletes
\* in order, ranks and totals.
C30_PermutationInvariant ==
    AtMostOnePerTuple(scores) =>
        /\ call.fn = "computeRunScore" =>
               SameRunOutcome(ret,
                   computeRunScore(scores, call.categoryId, call.athleteBib, call.run),
                   TiedAttempts(scores, call.categoryId, call.athleteBib, call.run))
        /\ call.fn = "computeFinalScore" =>
               /\ computeFinalScore(scores, categories, call.athlete).weightedTotal
                    = ret.weightedTotal
               /\ computeFinalScore(scores, categories, call.athlete).complete
                    = ret.complete
        /\ call.fn = "rankAthletes" =>
               SameRanking(ret, rankAthletes(scores, categories, athletes))

\* C30 witness: computeRunScore returned one of two tied attempts, and on
\* the present order of the submissions it returns the other
C30_Witness ==
    /\ call.fn = "computeRunScore"
    /\ ret # NullResult
    /\ computeRunScore(scores, call.categoryId, call.athleteBib, call.run).attempt
         # ret.attempt

(***************************************************************************)
(* Properties of the leaderboards (SpecLeaderboard) *)
(***************************************************************************)

\* The two events are the same but for the submissions of judges other than
\* `role` and the submissions for categories other than categoryId
SameForJudge(a, b, role, categoryId) ==
    /\ [a EXCEPT !.scores = <<>>] = [b EXCEPT !.scores = <<>>]
    /\ SelectSeq(a.scores, LAMBDA s : s.judgeRole = role /\ s.categoryId = categoryId)
         = SelectSeq(b.scores, LAMBDA s : s.judgeRole = role /\ s.categoryId = categoryId)

\* C26: the leaderboard built for a judge role R -- the judge's own
\* GET /api/score/leaderboard and the admin's GET /api/admin/results with
\* judge=R -- is the same on every stored event that differs from the present
\* one only in the submissions of other judges or for other categories: it
\* is a function of R's own submissions for the category alone.
C26_OwnSubmissionsOnly ==
    /\ (call.fn = "GET /api/score/leaderboard" /\ response.status = 200) =>
           \A other \in LeaderboardEvents :
               SameForJudge(event, other, call.role,
                            event.liveState.activeCategoryId) =>
                   GetLeaderboard(other, call.key) = response
    /\ (/\ call.fn = "GET /api/admin/results"
        /\ response.status = 200
        /\ Includes(JUDGE_ROLES, call.judge)) =>
           \A other \in LeaderboardEvents :
               SameForJudge(event, other, call.judge, call.categoryId) =>
                   GetResults(other, call.key, call.categoryId, call.judge) = response

\* A judge got a leaderboard with an athlete they scored while another judge
\* has a submission for the same category in the store
C26_Witness ==
    /\ call.fn = "GET /api/score/leaderboard"
    /\ response.status = 200
    /\ response.body.categoryId = "c1"
    /\ \E i \in 1..Len(event.scores) :
           /\ event.scores[i].judgeRole # call.role
           /\ event.scores[i].categoryId = "c1"
    /\ \E i \in 1..Len(event.scores) :
           /\ event.scores[i].judgeRole = call.role
           /\ event.scores[i].categoryId = "c1"

(***************************************************************************)
(* Properties of roster management (SpecRoster) *)
(***************************************************************************)

\* The stored roster of a category
StoredRoster(ev, categoryId) == FindCategory(ev.categories, categoryId).athletes

\* Ascending by bib with no bib twice
StrictlyAscending(roster) ==
    \A i \in 1..(Len(roster) - 1) : roster[i].bib < roster[i + 1].bib

\* This step answers the add-athlete request in flight at i, sent with body
AddAnswered(i, body) ==
    /\ inflight[i].route = "POST athletes"
    /\ inflight' = RemoveAt(inflight, i)
    /\ response'.route = "POST athletes"
    /\ response'.body = AddAthlete(Loaded(i), body)

\* This step answers the import request in flight at i, sent with csv
ImportAnswered(i, csv) ==
    /\ inflight[i].route = "POST athletes/import"
    /\ inflight' = RemoveAt(inflight, i)
    /\ response'.route = "POST athletes/import"
    /\ response'.body =
           ImportAthletes(Loaded(i), csv,
                          KeepFirst(parseCsv(csv, 1, <<>>, <<>>).athletes, 1, <<>>, <<>>))

\* Line i of the CSV is a row bib,name that parses
IsRow(csv, i, bib, name) ==
    /\ Len(csv[i]) = 2
    /\ NumberOf(csv[i][1]) = bib
    /\ bib > 0
    /\ csv[i][2] = name
    /\ name # ""

\* The athlete is the first row of its bib in the CSV
FirstOccurrence(csv, a) ==
    \E i \in 1..Len(csv) :
        /\ IsRow(csv, i, a.bib, a.name)
        /\ \A j \in 1..(i - 1) : \A name \in {"Alice", "Bob", "Zoe"} :
               ~IsRow(csv, j, a.bib, name)

\* An add-athlete request for a bib the stored roster has is answered 409
\* and nothing is written
AddOfExistingBib(i, body) ==
    (/\ AddAnswered(i, body)
     /\ body.bib > 0
     /\ body.name # ""
     /\ HasBib(StoredRoster(event, inflight[i].categoryId), body.bib)) =>
        /\ response'.status = 409
        /\ event' = event

\* An import leaves every athlete of the stored roster in it and adds, for a
\* bib the roster did not have, the first row of that bib
ImportSkipsAndKeepsFirst(i, csv) ==
    (ImportAnswered(i, csv) /\ response'.status = 200) =>
        /\ \A k \in 1..Len(StoredRoster(event, inflight[i].categoryId)) :
               Includes(StoredRoster(event', inflight[i].categoryId),
                        StoredRoster(event, inflight[i].categoryId)[k])
        /\ \A k \in 1..Len(StoredRoster(event', inflight[i].categoryId)) :
               \/ Includes(StoredRoster(event, inflight[i].categoryId),
                           StoredRoster(event', inflight[i].categoryId)[k])
               \/ FirstOccurrence(csv, StoredRoster(event', inflight[i].categoryId)[k])

\* C21: in every state every category's roster is sorted by ascending bib and
\* has no bib twice; an add-athlete request for a bib that is in the stored
\* roster is answered 409 and leaves the event as it is; an import keeps the
\* athletes the roster has (it skips their bibs) and adds the first row of
\* each new bib.
C21_RosterUniqueAndSorted ==
    /\ [](event # NoEvent =>
            \A c \in 1..Len(event.categories) :
                StrictlyAscending(event.categories[c].athletes))
    /\ [][Len(inflight') < Len(inflight) =>
            \A i \in 1..Len(inflight) :
                /\ \A body \in AthleteBodies : AddOfExistingBib(i, body)
                /\ \A csv \in CsvBodies : ImportSkipsAndKeepsFirst(i, csv)]_vars

(***************************************************************************)
(* Properties of event administration (SpecAdmin) *)
(***************************************************************************)

\* This step answers a request of the route: at once, or when its handler
\* in flight finishes
AnsweredOn(route) ==
    /\ response'.route = route
    /\ \/ Len(inflight') < Len(inflight)
       \/ requests' # requests /\ inflight' = inflight

\* This step answers the create-event request in flight at i, sent with
\* body, the keys being those of the draw
CreateAnswered(i, body, draw) ==
    /\ inflight[i].route = "POST /api/admin/create-event"
    /\ inflight' = RemoveAt(inflight, i)
    /\ response'.route = "POST /api/admin/create-event"
    /\ response'.status = CreateEvent(inflight[i].event, body, draw).status
    /\ event' = IF response'.status = 201
                THEN CreateEvent(inflight[i].event, body, draw).event
                ELSE event

\* What C27 says of an answered create-event request
CreateRules(i, body, draw) ==
    /\ (event # NoEvent /\ event' # event) =>
           /\ validateAdminKey(event, inflight[i].key)
           /\ "confirm" \in DOMAIN body
           /\ body.confirm = TRUE
    /\ (event = NoEvent /\ "name" \in DOMAIN body /\ body.name # "") =>
           /\ response'.status = 201
           /\ event'.categories = <<>>
           /\ event'.scores = <<>>
           /\ event'.lockedRuns = <<>>
           /\ event'.liveState = [activeCategoryId |-> NullId, activeRun |-> 1,
                                  activeAthleteIndex |-> 0, activeAttemptNumber |-> 1]

\* C27: a create-event request that changes a stored event carried the
\* admin key of that event and confirm: true; one answered 400, 401 or 409
\* leaves the stored event as it is; with no event stored a request is never
\* turned away for its key, and one with a name is answered 201 and stores an
\* event with no categories, scores or locked runs and the default live
\* state.
C27_ReplaceNeedsKeyAndConfirm ==
    [][/\ (/\ AnsweredOn("POST /api/admin/create-event")
           /\ response'.status \in {400, 401, 409}) => event' = event
       /\ (event = NoEvent /\ AnsweredOn("POST /api/admin/create-event")) =>
              response'.status # 401
       /\ Len(inflight') < Len(inflight) =>
              \A i \in 1..Len(inflight) : \A body \in CreateBodies : \A draw \in {1, 2} :
                  CreateAnswered(i, body, draw) => CreateRules(i, body, draw)]_vars

\* C28: a step that answers a JSON import leaves the stored adminKey and
\* judgeKeys as they are, and leaves the whole event as it is when the
\* answer is 400, 401 or 422.
C28_ImportKeepsKeys ==
    [][(AnsweredOn("POST /api/export/json") /\ event # NoEvent) =>
           /\ event' # NoEvent
           /\ event'.adminKey = event.adminKey
           /\ event'.judgeKeys = event.judgeKeys
           /\ response'.status \in {400, 401, 422} => event' = event]_vars

\* This step answers the import in flight at i, sent with body
JsonImported(i, body) ==
    /\ inflight[i].route = "POST /api/export/json"
    /\ inflight' = RemoveAt(inflight, i)
    /\ response'.route = "POST /api/export/json"
    /\ response'.status = ImportJson(inflight[i].event, body).status
    /\ event' = IF response'.status = 200
                THEN ImportJson(inflight[i].event, body).event
                ELSE event

\* C29: an import of what GET /api/export/json gives for the stored event,
\* by a handler that loaded the event as it is stored, is answered 200 and
\* leaves the stored event equal to what it was.
C29_ExportImportRoundTrip ==
    [][\A i \in 1..Len(inflight) :
           (/\ event # NoEvent
            /\ inflight[i].event = event
            /\ JsonImported(i, Exported(event))) =>
               /\ response'.status = 200
               /\ event' = event]_vars

====
